---- MODULE Spec2Model ----
(***************************************************************************)
(* Model of go-kafka-console-consumer's dispatch loop (pkg/parser,         *)
(* Parser.Serve), the decoders it drives and the printJSON presenter.      *)
(*                                                                         *)
(* The three consumer channels and the shutdown handle are the queues      *)
(* msgs, errs, notifs and done.  One action of the loop is one round of    *)
(* the select statement together with the whole case body it runs.         *)
(* log is the sequence of entries written to the logrus logger; the field  *)
(* src of an entry records which component wrote it ("loop" for            *)
(* Parser.Serve and Parser.printJSON, "decoder" for a decoder that logs    *)
(* through the same logger).  decodeCalls records every call of            *)
(* Decoder.Decode: the payload passed and the length of log at the call.   *)
(***************************************************************************)
EXTENDS Integers, Sequences, FiniteSets, TLC

VARIABLES msgs, errs, notifs, msgsClosed, errsClosed, notifsClosed,
          done, sent, pc, decoder, log, decodeCalls, lastEvent, produced,
          mainPc, newResult, validateCalls, inflight,
          decoded, ioTrace, args, consumerConn, pluginCalls,
          backoffs

\* the state of main around parser.New and Serve: where main is, what New
\* returned, and the calls of Decoder.ValidateSchemas
startVars == <<mainPc, newResult, validateCalls>>

\* the calls of Decode made on a decoder directly, with what each returned,
\* and the file reads and codec compilations of AvroDecoder.ValidateSchemas
decVars == <<decoded, ioTrace>>

\* the startup of main before parser.New: the command-line flags, the
\* consumer returned by newConsumer and the calls of loadPlugin
bootVars == <<args, consumerConn, pluginCalls, backoffs>>

vars == <<msgs, errs, notifs, msgsClosed, errsClosed, notifsClosed,
          done, sent, pc, decoder, log, decodeCalls, lastEvent, produced,
          mainPc, newResult, validateCalls, inflight,
          decoded, ioTrace, args, consumerConn, pluginCalls,
          backoffs>>

(***************************************************************************)
(* Bounds                                                                  *)
(***************************************************************************)
\* total number of values the consumer puts on its three channels
MaxEvents == 3

\* number of failed attempts of cluster.NewConsumer in a row
MaxRetries == 40

(***************************************************************************)
(* Program constants                                                       *)
(***************************************************************************)
\* done := make(chan struct{}, 1)
DoneCap == 1

(***************************************************************************)
(* Inputs                                                                  *)
(***************************************************************************)
\* a nil []byte (a Kafka record with a null value)
NilBytes == <<"nil">>

ByteLen(b) == IF b = NilBytes THEN 0 ELSE Len(b)

\* *sarama.RecordHeader values; a nil pointer is the record with nil = TRUE
NilHeader == [nil |-> TRUE, Key |-> "", Value |-> ""]
Header1 == [nil |-> FALSE, Key |-> "k1", Value |-> "v1"]
Header2 == [nil |-> FALSE, Key |-> "k2", Value |-> "v2"]

\* []byte payloads over the JSON tokens "[", "]" and the digit "1"
EmptyBytes == <<>>
ValidDoc == <<"[", "1", "]">>
InvalidDoc == <<"[", "1">>

\* a nil *sarama.ConsumerMessage
NilMessage == [nil |-> TRUE]

IsNilMessage(m) == "nil" \in DOMAIN m

Message(offset, headers, value) ==
    [Offset |-> offset, Headers |-> headers, Value |-> value]

\* values of the Messages channel: no, one and several headers (one of them
\* nil), and a valid, an invalid, an empty and a nil payload
ConsumerMessages ==
    { Message(0, <<Header1>>, ValidDoc),
      Message(1, <<Header2, NilHeader, Header1>>, ValidDoc),
      Message(2, <<Header1, Header2>>, EmptyBytes),
      Message(3, <<NilHeader>>, InvalidDoc),
      Message(7, <<>>, NilBytes) }

\* values of the Errors channel (the text returned by err.Error())
ConsumerErrors == { "kafka: broker down" }

\* values of the Notifications channel (the text %+v prints)
ConsumerNotifications == { "&{Type:unknown Claimed:map[] Released:map[] Current:map[]}" }

\* the command-line flags main reads with flag.Parse that decide what main
\* does (-group and -from-beginning only fill in the consumer's configuration);
\* parsed is FALSE when no command line was read
Args(brokers, topic, msgType, schemas, converterPath, tls) ==
    [parsed |-> TRUE, brokers |-> brokers, topic |-> topic, msgType |-> msgType,
     schemas |-> schemas, converterPath |-> converterPath,
     tlsConfigPath |-> tls[1], clientCert |-> tls[2], clientKey |-> tls[3],
     caCert |-> tls[4]]

\* no -tls-configurator, -client-cert, -client-key and -ca-cert
NoTLS == <<"", "", "", "">>

\* a Parser built by a caller other than main
NoArgs == [Args("", "", "", <<>>, "", NoTLS) EXCEPT !.parsed = FALSE]

\* the decoders a Parser is built with
Decoders == { [kind |-> "json", shouldDecode |-> TRUE],
              [kind |-> "test", shouldDecode |-> TRUE],
              [kind |-> "test", shouldDecode |-> FALSE] }

(***************************************************************************)
(* Logger                                                                  *)
(***************************************************************************)
Entry(src, level, kind, text) ==
    [src |-> src, level |-> level, kind |-> kind, text |-> text]


(***************************************************************************)
(* Decoders                                                                *)
(***************************************************************************)
\* a nil error
NilError == "<nil>"

\* a nil interface{} value
NilData == [type |-> "nil", bytes |-> <<>>]

\* json.RawMessage(msg)
RawMessage(b) == [type |-> "RawMessage", bytes |-> b]

\* mutant: the length check is missing
JSONDecode_AcceptsEmpty(b) == [data |-> RawMessage(b), err |-> NilError]

\* mutant: the payload is parsed and rejected when it is not a document
JSONDecode_Parses(b) ==
    IF ByteLen(b) < 1
    THEN [data |-> NilData, err |-> "Invalid JSON, length < 1"]
    ELSE IF b \in { <<"[", "1", "]">> }
    THEN [data |-> RawMessage(b), err |-> NilError]
    ELSE [data |-> NilData, err |-> "invalid character"]

\* JSONDecoder.Decode: the payload must have at least one byte and is
\* otherwise passed through without being parsed
JSONDecode(b) ==
    IF ByteLen(b) < 1
    THEN [data |-> NilData, err |-> "Invalid JSON, length < 1"]
    ELSE [data |-> RawMessage(b), err |-> NilError]

\* j.Log.Infof("Decoding JSON message..."), written before the length check
JSONDecodeLog == << Entry("decoder", "info", "Decoding JSON message...", <<>>) >>

(***************************************************************************)
(* Avro: the schemas a codec is compiled from, the native Go values of a   *)
(* record and the Avro binary encoding the codec reads and writes.  A byte *)
(* is a number in 0..255, a string or []byte the sequence of its bytes.    *)
(***************************************************************************)
StringType == [t |-> "string"]
BytesType == [t |-> "bytes"]
LongType == [t |-> "long"]
ArrayType(items) == [t |-> "array", items |-> items]
Field(name, type) == [name |-> name, type |-> type]
RecordType(fields) == [t |-> "record", fields |-> fields]

\* native values by their Go dynamic type
GoString(s) == [type |-> "string", v |-> s]
GoBytes(b) == [type |-> "[]byte", v |-> b]
GoInt64(n) == [type |-> "int64", v |-> n]
GoSlice(elements) == [type |-> "[]interface{}", v |-> elements]
GoMap(m) == [type |-> "map[string]interface{}", v |-> m]

RECURSIVE Concat(_)
\* the concatenation of a sequence of byte sequences
Concat(parts) ==
    IF parts = <<>> THEN <<>> ELSE Head(parts) \o Concat(Tail(parts))

\* Avro writes a long as the variable-length encoding of its zig-zag value
ZigZag(n) == IF n >= 0 THEN 2 * n ELSE -2 * n - 1

UnZigZag(u) == IF u % 2 = 0 THEN u \div 2 ELSE -((u + 1) \div 2)

RECURSIVE Varint(_)
Varint(u) ==
    IF u < 128 THEN <<u>> ELSE <<128 + (u % 128)>> \o Varint(u \div 128)

LongBytes(n) == Varint(ZigZag(n))

RECURSIVE BinaryFromNative(_, _)
\* codec.BinaryFromNative(nil, native) for a native value of the schema
BinaryFromNative(type, native) ==
    CASE type.t \in {"string", "bytes"} ->
            LongBytes(Len(native.v)) \o native.v
      [] type.t = "long" -> LongBytes(native.v)
      [] type.t = "array" ->
            IF native.v = <<>> THEN <<0>>
            ELSE LongBytes(Len(native.v))
                 \o Concat([i \in DOMAIN native.v |->
                               BinaryFromNative(type.items, native.v[i])])
                 \o <<0>>
      [] type.t = "record" ->
            Concat([i \in DOMAIN type.fields |->
                       BinaryFromNative(type.fields[i].type,
                                        native.v[type.fields[i].name])])

\* the causes of a failed binary decode
ErrShortBuffer == "short buffer"
ErrNegativeLength == "negative length"

\* the result of reading one value: the error, the value and the bytes left
ReadOK(native, rest) == [err |-> NilError, native |-> native, rest |-> rest]
ReadFailed(cause) == [err |-> cause, native |-> NilData, rest |-> <<>>]

RECURSIVE ReadVarint(_)
ReadVarint(b) ==
    IF b = <<>> THEN [ok |-> FALSE, val |-> 0, rest |-> <<>>]
    ELSE IF b[1] < 128 THEN [ok |-> TRUE, val |-> b[1], rest |-> Tail(b)]
    ELSE LET r == ReadVarint(Tail(b))
         IN [ok |-> r.ok, val |-> (b[1] - 128) + 128 * r.val, rest |-> r.rest]

ReadLong(b) ==
    LET r == ReadVarint(b)
    IN IF r.ok THEN ReadOK(GoInt64(UnZigZag(r.val)), r.rest)
       ELSE ReadFailed(ErrShortBuffer)

\* a length-prefixed run of bytes (string and bytes share the encoding)
ReadBytes(b) ==
    LET n == ReadLong(b)
    IN IF n.err # NilError THEN n
       ELSE IF n.native.v < 0 THEN ReadFailed(ErrNegativeLength)
       ELSE IF Len(n.rest) < n.native.v THEN ReadFailed(ErrShortBuffer)
       ELSE ReadOK(GoBytes(SubSeq(n.rest, 1, n.native.v)),
                   SubSeq(n.rest, n.native.v + 1, Len(n.rest)))

RECURSIVE Read(_, _)
RECURSIVE ReadItems(_, _, _, _)
RECURSIVE ReadBlocks(_, _, _)
RECURSIVE ReadFields(_, _, _)

\* count items of an array block, appended to acc
ReadItems(items, count, b, acc) ==
    IF count = 0 THEN ReadOK(GoSlice(acc), b)
    ELSE LET r == Read(items, b)
         IN IF r.err # NilError THEN r
            ELSE ReadItems(items, count - 1, r.rest, Append(acc, r.native))

\* the blocks of an array: a count, the items, ... and a count of zero; a
\* negative count is followed by the size of the block in bytes
ReadBlocks(items, b, acc) ==
    LET n == ReadLong(b)
    IN IF n.err # NilError THEN n
       ELSE IF n.native.v = 0 THEN ReadOK(GoSlice(acc), n.rest)
       ELSE IF n.native.v < 0
       THEN LET size == ReadLong(n.rest)
            IN IF size.err # NilError THEN size
               ELSE LET r == ReadItems(items, -n.native.v, size.rest, acc)
                    IN IF r.err # NilError THEN r
                       ELSE ReadBlocks(items, r.rest, r.native.v)
       ELSE LET r == ReadItems(items, n.native.v, n.rest, acc)
            IN IF r.err # NilError THEN r
               ELSE ReadBlocks(items, r.rest, r.native.v)

\* the fields of a record in schema order, collected in a map
ReadFields(fields, b, acc) ==
    IF fields = <<>> THEN ReadOK(GoMap(acc), b)
    ELSE LET r == Read(Head(fields).type, b)
         IN IF r.err # NilError THEN r
            ELSE ReadFields(Tail(fields), r.rest,
                            acc @@ (Head(fields).name :> r.native))

\* one value of the given schema read from the front of b
Read(type, b) ==
    CASE type.t = "long" -> ReadLong(b)
      [] type.t = "bytes" -> ReadBytes(b)
      [] type.t = "string" ->
            LET r == ReadBytes(b)
            IN IF r.err # NilError THEN r
               ELSE ReadOK(GoString(r.native.v), r.rest)
      [] type.t = "array" -> ReadBlocks(type.items, b, <<>>)
      [] type.t = "record" -> ReadFields(type.fields, b, <<>>)

\* codec.NativeFromBinary(msg): the value, the bytes left over and the error
NativeFromBinary(codec, msg) == Read(codec, msg)


(***************************************************************************)
(* AvroDecoder (pkg/decoders, the version the tests of avro_test.go run    *)
(* against)                                                                *)
(***************************************************************************)
ErrInvalidSchema == "invalid schema, schemas must be .avsc files"
ErrNoCodec == "could not find codec. Was ValidateSchemas called yet?"
ErrAssertingType == "could not decode message, type assertion failed"
ErrReadingSchemaWrapper == "error reading schema %s"
ErrCreatingCodecWrapper == "error creating codec for schema %s"
ErrDecodingMessageWrapper == "error decoding message"

\* errors.Wrapf(err, wrapper): the text of the wrapper, ": " and the cause
Wrapf(cause, wrapper) ==
    CASE wrapper = ErrDecodingMessageWrapper /\ cause = ErrShortBuffer ->
            "error decoding message: short buffer"
      [] wrapper = ErrDecodingMessageWrapper /\ cause = ErrNegativeLength ->
            "error decoding message: negative length"
      [] wrapper = ErrReadingSchemaWrapper ->
            "error reading schema %s: no such file or directory"
      [] wrapper = ErrCreatingCodecWrapper ->
            "error creating codec for schema %s: unknown type name"

\* a file path is the sequence of its segments, the extension being the last
\* one: <<"fake_path", ".avsc">> is fake_path.avsc
HasSuffix(path, suffix) == path # <<>> /\ path[Len(path)] = suffix

\* the record of etc/tests/test_schema.avsc: two strings and a bytes field
TestSchema ==
    RecordType(<< Field("firstName", StringType),
                  Field("lastName", StringType),
                  Field("json", BytesType) >>)

\* etc/tests/invalid_schema.avsc: field 3 names a type that does not exist
InvalidSchema ==
    RecordType(<< Field("firstName", StringType),
                  Field("lastName", StringType),
                  Field("json", [t |-> "notAType"]) >>)

\* a record nested in a record, in an array and in an array of arrays, next
\* to an array of strings
Kid == RecordType(<< Field("n", LongType) >>)

NestedSchema ==
    RecordType(<< Field("kid", Kid),
                  Field("tags", ArrayType(StringType)),
                  Field("kids", ArrayType(Kid)),
                  Field("grid", ArrayType(ArrayType(Kid))) >>)

\* the files on disk: the path and the schema its text describes
SchemaFiles ==
    (<<"test_schema", ".avsc">> :> TestSchema)
    @@ (<<"nested_schema", ".avsc">> :> NestedSchema)
    @@ (<<"string_schema", ".avsc">> :> StringType)
    @@ (<<"invalid_schema", ".avsc">> :> InvalidSchema)
    @@ (<<"test_schema", ".json">> :> TestSchema)

\* the values of the schemas argument: the files, a path with no file behind
\* it, a path whose extension is followed by another one, and ""
SchemaPaths ==
    DOMAIN SchemaFiles
    \cup { <<"fake_path", ".avsc">>, <<"test", ".json">>,
           <<"test_schema", ".avsc", ".bak">>, <<>> }

\* ioutil.ReadFile(schemas)
ReadFile(path) ==
    IF path \in DOMAIN SchemaFiles
    THEN [bytes |-> SchemaFiles[path], err |-> NilError]
    ELSE [bytes |-> <<>>, err |-> "no such file or directory"]

RECURSIVE KnownType(_)
\* every type the schema names is an Avro type
KnownType(type) ==
    CASE type.t \in {"string", "bytes", "long"} -> TRUE
      [] type.t = "array" -> KnownType(type.items)
      [] type.t = "record" ->
            \A i \in DOMAIN type.fields : KnownType(type.fields[i].type)
      [] OTHER -> FALSE

\* a nil *goavro.Codec
NilCodec == [t |-> "nil"]

\* goavro.NewCodec(string(schemaBytes)): the codec, nil with an error
NewCodec(schema) ==
    IF KnownType(schema)
    THEN [codec |-> schema, err |-> NilError]
    ELSE [codec |-> NilCodec, err |-> "unknown type name"]

\* a nil Converter, and the testConverter of avro_test.go
NilConverter == "nil"
TestConverter == "testConverter"

\* &decoders.AvroDecoder{Converter: converter}
AvroDecoder(converter) ==
    [kind |-> "avro", Converter |-> converter, codec |-> NilCodec]

\* the steps of ValidateSchemas that touch the disk or build a codec
IOReadFile(path) == [op |-> "ReadFile", path |-> path]
IONewCodec(path) == [op |-> "NewCodec", path |-> path]

\* mutant: the file is read before the extension is looked at
AvroValidateSchemas_ReadsFirst(a, schemas) ==
    LET file == ReadFile(schemas)
        made == NewCodec(file.bytes)
    IN IF file.err # NilError
       THEN [err |-> Wrapf(file.err, ErrReadingSchemaWrapper),
             decoder |-> a, io |-> << IOReadFile(schemas) >>]
       ELSE IF ~HasSuffix(schemas, ".avsc")
       THEN [err |-> ErrInvalidSchema, decoder |-> a,
             io |-> << IOReadFile(schemas) >>]
       ELSE [err |-> IF made.err # NilError
                     THEN Wrapf(made.err, ErrCreatingCodecWrapper)
                     ELSE NilError,
             decoder |-> [a EXCEPT !.codec = made.codec],
             io |-> << IOReadFile(schemas), IONewCodec(schemas) >>]

\* AvroDecoder.ValidateSchemas: the error returned, the decoder afterwards
\* (a.codec is assigned whatever NewCodec returns, nil on failure) and the
\* disk and codec steps taken
AvroValidateSchemas(a, schemas) ==
    LET file == ReadFile(schemas)
        made == NewCodec(file.bytes)
    IN IF ~HasSuffix(schemas, ".avsc")
       THEN [err |-> ErrInvalidSchema, decoder |-> a, io |-> <<>>]
       ELSE IF file.err # NilError
       THEN [err |-> Wrapf(file.err, ErrReadingSchemaWrapper),
             decoder |-> a, io |-> << IOReadFile(schemas) >>]
       ELSE [err |-> IF made.err # NilError
                     THEN Wrapf(made.err, ErrCreatingCodecWrapper)
                     ELSE NilError,
             decoder |-> [a EXCEPT !.codec = made.codec],
             io |-> << IOReadFile(schemas), IONewCodec(schemas) >>]

\* testConverter.ConvertFields: always fails, the record is left as it is
ConvertFields(converter, record) ==
    [err |-> "test error", record |-> record]

RECURSIVE castFields(_)
\* castFields: the pass over the decoded mapping.  It changes nothing; what
\* it does is look at values, and the result here is the set of values it
\* looks at: every value of the mapping; for a value that is a mapping, the
\* values of that mapping; for a value that is a sequence, its elements and,
\* for an element that is a mapping, the values of that mapping.  An element
\* that is itself a sequence is looked at and not entered.
castFields(casted) ==
    UNION { {casted.v[k]}
            \cup (CASE casted.v[k].type = "map[string]interface{}" ->
                          castFields(casted.v[k])
                    [] casted.v[k].type = "[]interface{}" ->
                          UNION { {casted.v[k].v[i]}
                                  \cup (IF casted.v[k].v[i].type = "map[string]interface{}"
                                        THEN castFields(casted.v[k].v[i])
                                        ELSE {})
                                  : i \in DOMAIN casted.v[k].v }
                    [] OTHER -> {})
            : k \in DOMAIN casted.v }

\* mutant: the value is dropped at the end (return nil, nil)
AvroDecode_ReturnsNil(a, msg) ==
    IF a.codec = NilCodec
    THEN [data |-> NilData, err |-> ErrNoCodec]
    ELSE LET r == NativeFromBinary(a.codec, msg)
         IN IF r.err # NilError
            THEN [data |-> NilData, err |-> Wrapf(r.err, ErrDecodingMessageWrapper)]
            ELSE IF r.native.type # "map[string]interface{}"
            THEN [data |-> NilData, err |-> ErrAssertingType]
            ELSE IF a.Converter # NilConverter
                    /\ ConvertFields(a.Converter, r.native).err # NilError
            THEN [data |-> NilData, err |-> ConvertFields(a.Converter, r.native).err]
            ELSE [data |-> NilData, err |-> NilError]

\* mutant: the codec is not looked at before it is used; a nil codec reads
\* nothing and the empty mapping comes back
AvroDecode_NoCodecCheck(a, msg) ==
    IF a.codec = NilCodec
    THEN [data |-> GoMap(<<>>), err |-> NilError]
    ELSE LET r == NativeFromBinary(a.codec, msg)
         IN IF r.err # NilError
            THEN [data |-> NilData, err |-> Wrapf(r.err, ErrDecodingMessageWrapper)]
            ELSE IF r.native.type # "map[string]interface{}"
            THEN [data |-> NilData, err |-> ErrAssertingType]
            ELSE IF a.Converter # NilConverter
            THEN LET c == ConvertFields(a.Converter, r.native)
                 IN IF c.err # NilError
                    THEN [data |-> NilData, err |-> c.err]
                    ELSE [data |-> c.record, err |-> NilError]
            ELSE [data |-> r.native, err |-> NilError]

\* mutant: the converter's error is wrapped like the decoding error
AvroDecode_WrapsConverterError(a, msg) ==
    IF a.codec = NilCodec
    THEN [data |-> NilData, err |-> ErrNoCodec]
    ELSE LET r == NativeFromBinary(a.codec, msg)
         IN IF r.err # NilError
            THEN [data |-> NilData, err |-> Wrapf(r.err, ErrDecodingMessageWrapper)]
            ELSE IF r.native.type # "map[string]interface{}"
            THEN [data |-> NilData, err |-> ErrAssertingType]
            ELSE IF a.Converter # NilConverter
            THEN LET c == ConvertFields(a.Converter, r.native)
                 IN IF c.err # NilError
                    THEN [data |-> NilData, err |-> "error converting fields: test error"]
                    ELSE [data |-> c.record, err |-> NilError]
            ELSE [data |-> r.native, err |-> NilError]

\* AvroDecoder.Decode: the codec must exist, the payload must decode to a
\* mapping; castFields leaves the mapping as it is; a Converter, if there is
\* one, is then run on it
AvroDecode(a, msg) ==
    IF a.codec = NilCodec
    THEN [data |-> NilData, err |-> ErrNoCodec]
    ELSE LET r == NativeFromBinary(a.codec, msg)
         IN IF r.err # NilError
            THEN [data |-> NilData, err |-> Wrapf(r.err, ErrDecodingMessageWrapper)]
            ELSE IF r.native.type # "map[string]interface{}"
            THEN [data |-> NilData, err |-> ErrAssertingType]
            ELSE IF a.Converter # NilConverter
            THEN LET c == ConvertFields(a.Converter, r.native)
                 IN IF c.err # NilError
                    THEN [data |-> NilData, err |-> c.err]
                    ELSE [data |-> c.record, err |-> NilError]
            ELSE [data |-> r.native, err |-> NilError]


(***************************************************************************)
(* MsgPackDecoder: msgpack.Unmarshal into a map[string]interface{}, for    *)
(* payloads made of a fixmap (0x80 + n pairs) whose keys and values are    *)
(* fixstr (0xa0 + n bytes)                                                 *)
(***************************************************************************)
ErrEOF == "EOF"
ErrInvalidCode == "msgpack: invalid code decoding map length"
ErrInvalidString == "msgpack: invalid code decoding bytes length"

FixMap(n) == 128 + n
FixStr(n) == 160 + n

\* one fixstr read from the front of b
ReadFixStr(b) ==
    IF b = <<>> THEN ReadFailed(ErrEOF)
    ELSE IF b[1] < FixStr(0) \/ b[1] > FixStr(31) THEN ReadFailed(ErrInvalidString)
    ELSE IF Len(b) - 1 < b[1] - FixStr(0) THEN ReadFailed(ErrEOF)
    ELSE ReadOK(GoString(SubSeq(b, 2, 1 + b[1] - FixStr(0))),
                SubSeq(b, 2 + b[1] - FixStr(0), Len(b)))

RECURSIVE ReadPairs(_, _, _)
\* n key-value pairs, collected in a map
ReadPairs(n, b, acc) ==
    IF n = 0 THEN ReadOK(GoMap(acc), b)
    ELSE LET k == ReadFixStr(b)
         IN IF k.err # NilError THEN k
            ELSE LET v == ReadFixStr(k.rest)
                 IN IF v.err # NilError THEN v
                    ELSE ReadPairs(n - 1, v.rest, acc @@ (k.native.v :> v.native))

\* msgpack.Unmarshal(msg, &decoded)
Unmarshal(msg) ==
    IF msg = <<>> THEN ReadFailed(ErrEOF)
    ELSE IF msg[1] < FixMap(0) \/ msg[1] > FixMap(15) THEN ReadFailed(ErrInvalidCode)
    ELSE ReadPairs(msg[1] - FixMap(0), Tail(msg), <<>>)

\* mutant: on an error Decode returns the map it was filling along with it
MsgPackDecode_ReturnsDecoded(msg) ==
    LET r == Unmarshal(msg)
    IN IF r.err # NilError
       THEN [data |-> GoMap(<<>>), err |-> r.err]
       ELSE [data |-> r.native, err |-> NilError]

\* MsgPackDecoder.Decode
MsgPackDecode(msg) ==
    LET r == Unmarshal(msg)
    IN IF r.err # NilError
       THEN [data |-> NilData, err |-> r.err]
       ELSE [data |-> r.native, err |-> NilError]

\* MsgPackDecoder.ValidateSchemas: schemas are not required
MsgPackValidateSchemas(schemas) == NilError

\* &decoders.MsgPackDecoder{}
MsgPackDecoder == [kind |-> "msgpack"]

\* testDecoder.Decode of the parser tests
TestDecode(d, b) ==
    IF d.shouldDecode
    THEN [data |-> RawMessage(b), err |-> NilError]
    ELSE [data |-> NilData, err |-> "decode test error"]

\* p.decoder.Decode(msg.Value): dispatch on the decoder the Parser holds
Decode(d, b) ==
    CASE d.kind = "json" -> JSONDecode(b)
      [] d.kind = "avro" -> AvroDecode(d, b)
      [] d.kind = "msgpack" -> MsgPackDecode(b)
      [] OTHER -> TestDecode(d, b)

\* what Decode itself writes to the shared logger
DecodeLog(d) ==
    IF d.kind = "json" THEN JSONDecodeLog ELSE <<>>

(***************************************************************************)
(* Presenter                                                               *)
(***************************************************************************)
RECURSIVE ValidJSON(_)
\* the documents encoding/json accepts, over the tokens "[", "]", "1":
\* value ::= "1"+ | "[" "]" | "[" value "]"
ValidJSON(b) ==
    IF b = NilBytes \/ Len(b) = 0 THEN FALSE
    ELSE IF b[1] = "1" THEN \A i \in 1..Len(b) : b[i] = "1"
    ELSE /\ b[1] = "["
         /\ Len(b) >= 2
         /\ b[Len(b)] = "]"
         /\ (Len(b) = 2 \/ ValidJSON(SubSeq(b, 2, Len(b) - 1)))

\* depth copies of the indent string "    "
Pad(depth) == [i \in 1..depth |-> "    "]

RECURSIVE Indent(_, _)
\* json.Indent with prefix "" and indent "    " on a valid document
Indent(b, depth) ==
    IF b[1] # "[" \/ Len(b) = 2 THEN b
    ELSE <<"[", "\n">> \o Pad(depth + 1)
         \o Indent(SubSeq(b, 2, Len(b) - 1), depth + 1)
         \o <<"\n">> \o Pad(depth) \o <<"]">>

\* json.MarshalIndent(data, "", "    "): a nil interface and a nil
\* RawMessage encode as null, any other RawMessage must be a valid document
MarshalIndent(data) ==
    IF data.type = "nil" \/ data.bytes = NilBytes
    THEN [out |-> <<"null">>, err |-> NilError]
    ELSE IF ValidJSON(data.bytes)
    THEN [out |-> Indent(data.bytes, 0), err |-> NilError]
    ELSE [out |-> <<>>,
          err |-> "json: error calling MarshalJSON for type json.RawMessage"]

\* mutant: the return after the error line is missing
printJSON_NoReturn(data) ==
    LET m == MarshalIndent(data)
    IN (IF m.err # NilError
        THEN << Entry("loop", "error", "Could not process message: %s", <<m.err>>) >>
        ELSE <<>>)
       \o << Entry("loop", "info", "Message:\n%s", m.out) >>

\* mutant: a serialization error is dropped without a log entry
printJSON_SwallowsError(data) ==
    LET m == MarshalIndent(data)
    IN IF m.err # NilError
       THEN <<>>
       ELSE << Entry("loop", "info", "Message:\n%s", m.out) >>

\* Parser.printJSON: the entries it logs
printJSON(data) ==
    LET m == MarshalIndent(data)
    IN IF m.err # NilError
       THEN << Entry("loop", "error", "Could not process message: %s", <<m.err>>) >>
       ELSE << Entry("loop", "info", "Message:\n%s", m.out) >>


(***************************************************************************)
(* Dispatch loop: Parser.Serve                                             *)
(***************************************************************************)
\* mutant: the done case leaves the select with break, the for loop goes on
LoopAlive_AfterBreak == pc \in {"running", "stopped"}

\* mutant: the select goes on while a handler is still running
LoopAlive_Concurrent == pc \in {"running", "decoding"}

\* the goroutine started by Serve is still inside its for loop
LoopAlive == pc = "running"

\* mutant: the done case does not return
LoopControl_NeverReturns(event) == "running"

\* mutant: a closed Messages channel ends the loop
LoopControl_ReturnsOnClosed(event) ==
    IF event \in {"shutdown", "messages_closed"} THEN "stopped" ELSE "running"

\* control flow of one select round: only the done case returns
LoopControl(event) == IF event = "shutdown" THEN "stopped" ELSE "running"

RECURSIVE HeaderLines_StopsAtNil(_)
\* mutant: the range over the headers ends at the first nil header
HeaderLines_StopsAtNil(headers) ==
    IF headers = <<>> \/ Head(headers).nil THEN <<>>
    ELSE << Entry("loop", "info", "\t%s: %s",
                  <<Head(headers).Key, Head(headers).Value>>) >>
         \o HeaderLines_StopsAtNil(Tail(headers))

RECURSIVE HeaderLines(_)
\* for _, header := range msg.Headers: one line per non-nil header
HeaderLines(headers) ==
    IF headers = <<>> THEN <<>>
    ELSE LET header == Head(headers)
         IN (IF ~header.nil
             THEN << Entry("loop", "info", "\t%s: %s", <<header.Key, header.Value>>) >>
             ELSE <<>>)
            \o HeaderLines(Tail(headers))

\* the initial logging of the message case, before Decode is called
InitialLogging(msg) ==
    << Entry("loop", "info", "Offset: %d", <<ToString(msg.Offset)>>),
       Entry("loop", "info", "Headers:", <<>>) >>
    \o HeaderLines(msg.Headers)

\* mutant: printJSON is called whether or not Decode failed
DecodeOutcome_AlwaysPrints(r) ==
    (IF r.err # NilError
     THEN << Entry("loop", "error", "Error decoding message: %s", <<r.err>>) >>
     ELSE <<>>)
    \o printJSON(r.data)

\* what the message case does with the result of Decode
DecodeOutcome(r) ==
    IF r.err # NilError
    THEN << Entry("loop", "error", "Error decoding message: %s", <<r.err>>) >>
    ELSE printJSON(r.data)

\* mutant: Decode is called before the offset and the headers are logged
MessageEntries_DecodeFirst(d, msg) ==
    DecodeLog(d) \o InitialLogging(msg) \o DecodeOutcome(Decode(d, msg.Value))

\* the entries one message adds to the log, in the order they are written
MessageEntries(d, msg) ==
    InitialLogging(msg) \o DecodeLog(d) \o DecodeOutcome(Decode(d, msg.Value))

\* the length of the log at the moment the message case calls Decode
DecodeCallAt(l, msg) == Len(l) + Len(InitialLogging(msg))

\* mutant: the error is logged at warning level
ErrorEntries_Warn(err) == << Entry("loop", "warning", "Error: %s", <<err>>) >>

\* case err, more := <-p.consumer.Errors()
ErrorEntries(err) == << Entry("loop", "error", "Error: %s", <<err>>) >>

\* mutant: the notification is logged at info level
NotificationEntries_Info(n) == << Entry("loop", "info", "Rebalanced: %+v", <<n>>) >>

\* case notification, more := <-p.consumer.Notifications()
NotificationEntries(n) == << Entry("loop", "warning", "Rebalanced: %+v", <<n>>) >>

\* case <-done: the summary line is commented out
ShutdownEntries == <<>>

Init ==
    /\ msgs = <<>> /\ errs = <<>> /\ notifs = <<>>
    /\ msgsClosed = FALSE /\ errsClosed = FALSE /\ notifsClosed = FALSE
    /\ done = 0
    /\ sent = 0
    /\ pc = "running"
    /\ decoder \in Decoders
    /\ log = <<>>
    /\ decodeCalls = <<>>
    /\ lastEvent = "none"
    /\ produced = 0
    /\ mainPc = "serving"
    /\ newResult = [schemas |-> "schemas", parser |-> "parser", err |-> NilError]
    /\ validateCalls = <<"schemas">>
    /\ inflight = <<>>
    /\ decoded = <<>>
    /\ ioTrace = <<>>
    /\ args = NoArgs
    /\ consumerConn = "connected"
    /\ pluginCalls = <<>>
    /\ backoffs = <<>>

(* ---- the consumer source and the caller of Serve ---- *)

\* the consumer delivers a message
SendMessage ==
    /\ ~msgsClosed /\ produced < MaxEvents
    /\ \E m \in ConsumerMessages : msgs' = Append(msgs, m)
    /\ produced' = produced + 1
    /\ UNCHANGED <<decVars, bootVars>>
    /\ UNCHANGED <<errs, notifs, msgsClosed, errsClosed, notifsClosed,
                   done, sent, pc, decoder, log, decodeCalls, lastEvent>>
    /\ UNCHANGED <<startVars, inflight>>

\* the consumer reports an error
SendError ==
    /\ ~errsClosed /\ produced < MaxEvents
    /\ \E e \in ConsumerErrors : errs' = Append(errs, e)
    /\ produced' = produced + 1
    /\ UNCHANGED <<decVars, bootVars>>
    /\ UNCHANGED <<msgs, notifs, msgsClosed, errsClosed, notifsClosed,
                   done, sent, pc, decoder, log, decodeCalls, lastEvent>>
    /\ UNCHANGED <<startVars, inflight>>

\* the consumer reports a rebalance
SendNotification ==
    /\ ~notifsClosed /\ produced < MaxEvents
    /\ \E n \in ConsumerNotifications : notifs' = Append(notifs, n)
    /\ produced' = produced + 1
    /\ UNCHANGED <<decVars, bootVars>>
    /\ UNCHANGED <<msgs, errs, msgsClosed, errsClosed, notifsClosed,
                   done, sent, pc, decoder, log, decodeCalls, lastEvent>>
    /\ UNCHANGED <<startVars, inflight>>

CloseMessages ==
    /\ ~msgsClosed
    /\ msgsClosed' = TRUE
    /\ UNCHANGED <<decVars, bootVars>>
    /\ UNCHANGED <<msgs, errs, notifs, errsClosed, notifsClosed,
                   done, sent, pc, decoder, log, decodeCalls, lastEvent, produced>>
    /\ UNCHANGED <<startVars, inflight>>

CloseErrors ==
    /\ ~errsClosed
    /\ errsClosed' = TRUE
    /\ UNCHANGED <<decVars, bootVars>>
    /\ UNCHANGED <<msgs, errs, notifs, msgsClosed, notifsClosed,
                   done, sent, pc, decoder, log, decodeCalls, lastEvent, produced>>
    /\ UNCHANGED <<startVars, inflight>>

CloseNotifications ==
    /\ ~notifsClosed
    /\ notifsClosed' = TRUE
    /\ UNCHANGED <<decVars, bootVars>>
    /\ UNCHANGED <<msgs, errs, notifs, msgsClosed, errsClosed,
                   done, sent, pc, decoder, log, decodeCalls, lastEvent, produced>>
    /\ UNCHANGED <<startVars, inflight>>

\* mutant: done has no slot, the send completes only when the loop is in
\* its select to take the value
SendDone_Unbuffered ==
    /\ sent = 0
    /\ LoopAlive
    /\ done < DoneCap
    /\ done' = done + 1
    /\ sent' = sent + 1
    /\ UNCHANGED <<decVars, bootVars>>
    /\ UNCHANGED <<msgs, errs, notifs, msgsClosed, errsClosed, notifsClosed,
                   pc, decoder, log, decodeCalls, lastEvent, produced>>
    /\ UNCHANGED <<startVars, inflight>>

\* done <- struct{}{}: the caller sends the shutdown signal, once
SendDone ==
    /\ sent = 0
    /\ done < DoneCap
    /\ done' = done + 1
    /\ sent' = sent + 1
    /\ UNCHANGED <<decVars, bootVars>>
    /\ UNCHANGED <<msgs, errs, notifs, msgsClosed, errsClosed, notifsClosed,
                   pc, decoder, log, decodeCalls, lastEvent, produced>>
    /\ UNCHANGED <<startVars, inflight>>

(* ---- the cases of the select ---- *)

\* mutant: the message case returns when Decode fails
RecvMessage_ReturnsOnDecodeError ==
    /\ LoopAlive
    /\ msgs # <<>>
    /\ LET msg == Head(msgs)
       IN /\ log' = log \o MessageEntries(decoder, msg)
          /\ decodeCalls' = Append(decodeCalls,
                                   [value |-> msg.Value, at |-> DecodeCallAt(log, msg)])
          /\ pc' = IF Decode(decoder, msg.Value).err # NilError
                   THEN "stopped" ELSE LoopControl("message")
    /\ msgs' = Tail(msgs)
    /\ lastEvent' = "message"
    /\ UNCHANGED <<decVars, bootVars>>
    /\ UNCHANGED <<errs, notifs, msgsClosed, errsClosed, notifsClosed,
                   done, sent, decoder, produced>>
    /\ UNCHANGED <<startVars, inflight>>

\* mutant: a message without payload is logged but not passed to Decode
RecvMessage_SkipsEmptyValue ==
    /\ LoopAlive
    /\ msgs # <<>>
    /\ ~IsNilMessage(Head(msgs))
    /\ LET msg == Head(msgs)
       IN IF ByteLen(msg.Value) = 0
          THEN /\ log' = log \o InitialLogging(msg)
               /\ decodeCalls' = decodeCalls
          ELSE /\ log' = log \o MessageEntries(decoder, msg)
               /\ decodeCalls' = Append(decodeCalls,
                                        [value |-> msg.Value, at |-> DecodeCallAt(log, msg)])
    /\ msgs' = Tail(msgs)
    /\ lastEvent' = "message"
    /\ pc' = LoopControl("message")
    /\ UNCHANGED <<decVars, bootVars>>
    /\ UNCHANGED <<errs, notifs, msgsClosed, errsClosed, notifsClosed,
                   done, sent, decoder, produced>>
    /\ UNCHANGED <<startVars, inflight>>

\* case msg, more := <-p.consumer.Messages(), more = true
RecvMessage ==
    /\ LoopAlive
    /\ msgs # <<>>
    /\ ~IsNilMessage(Head(msgs))
    /\ LET msg == Head(msgs)
       IN /\ log' = log \o MessageEntries(decoder, msg)
          /\ decodeCalls' = Append(decodeCalls,
                                   [value |-> msg.Value, at |-> DecodeCallAt(log, msg)])
    /\ msgs' = Tail(msgs)
    /\ lastEvent' = "message"
    /\ pc' = LoopControl("message")
    /\ UNCHANGED <<decVars, bootVars>>
    /\ UNCHANGED <<errs, notifs, msgsClosed, errsClosed, notifsClosed,
                   done, sent, decoder, produced>>
    /\ UNCHANGED <<startVars, inflight>>

\* case msg, more := <-p.consumer.Messages(), more = false
RecvMessageClosed ==
    /\ LoopAlive
    /\ msgs = <<>> /\ msgsClosed
    /\ lastEvent' = "messages_closed"
    /\ pc' = LoopControl("messages_closed")
    /\ UNCHANGED <<decVars, bootVars>>
    /\ UNCHANGED <<msgs, errs, notifs, msgsClosed, errsClosed, notifsClosed,
                   done, sent, decoder, log, decodeCalls, produced>>
    /\ UNCHANGED <<startVars, inflight>>

\* case err, more := <-p.consumer.Errors(), more = true
RecvError ==
    /\ LoopAlive
    /\ errs # <<>>
    /\ Head(errs) # NilError
    /\ log' = log \o ErrorEntries(Head(errs))
    /\ errs' = Tail(errs)
    /\ lastEvent' = "error"
    /\ pc' = LoopControl("error")
    /\ UNCHANGED <<decVars, bootVars>>
    /\ UNCHANGED <<msgs, notifs, msgsClosed, errsClosed, notifsClosed,
                   done, sent, decoder, decodeCalls, produced>>
    /\ UNCHANGED <<startVars, inflight>>

\* case err, more := <-p.consumer.Errors(), more = false
RecvErrorClosed ==
    /\ LoopAlive
    /\ errs = <<>> /\ errsClosed
    /\ lastEvent' = "errors_closed"
    /\ pc' = LoopControl("errors_closed")
    /\ UNCHANGED <<decVars, bootVars>>
    /\ UNCHANGED <<msgs, errs, notifs, msgsClosed, errsClosed, notifsClosed,
                   done, sent, decoder, log, decodeCalls, produced>>
    /\ UNCHANGED <<startVars, inflight>>

\* case notification, more := <-p.consumer.Notifications(), more = true
RecvNotification ==
    /\ LoopAlive
    /\ notifs # <<>>
    /\ log' = log \o NotificationEntries(Head(notifs))
    /\ notifs' = Tail(notifs)
    /\ lastEvent' = "notification"
    /\ pc' = LoopControl("notification")
    /\ UNCHANGED <<decVars, bootVars>>
    /\ UNCHANGED <<msgs, errs, msgsClosed, errsClosed, notifsClosed,
                   done, sent, decoder, decodeCalls, produced>>
    /\ UNCHANGED <<startVars, inflight>>

\* case notification, more := <-p.consumer.Notifications(), more = false
RecvNotificationClosed ==
    /\ LoopAlive
    /\ notifs = <<>> /\ notifsClosed
    /\ lastEvent' = "notifications_closed"
    /\ pc' = LoopControl("notifications_closed")
    /\ UNCHANGED <<decVars, bootVars>>
    /\ UNCHANGED <<msgs, errs, notifs, msgsClosed, errsClosed, notifsClosed,
                   done, sent, decoder, log, decodeCalls, produced>>
    /\ UNCHANGED <<startVars, inflight>>

\* mutant: the done case takes the signal and goes on with the loop
RecvDone_Continues ==
    /\ LoopAlive
    /\ done > 0
    /\ done' = done - 1
    /\ log' = log \o ShutdownEntries
    /\ lastEvent' = "shutdown"
    /\ pc' = "running"
    /\ UNCHANGED <<decVars, bootVars>>
    /\ UNCHANGED <<msgs, errs, notifs, msgsClosed, errsClosed, notifsClosed,
                   sent, decoder, decodeCalls, produced>>
    /\ UNCHANGED <<startVars, inflight>>

\* case <-done: return
RecvDone ==
    /\ LoopAlive
    /\ done > 0
    /\ done' = done - 1
    /\ log' = log \o ShutdownEntries
    /\ lastEvent' = "shutdown"
    /\ pc' = LoopControl("shutdown")
    /\ UNCHANGED <<decVars, bootVars>>
    /\ UNCHANGED <<msgs, errs, notifs, msgsClosed, errsClosed, notifsClosed,
                   sent, decoder, decodeCalls, produced>>
    /\ UNCHANGED <<startVars, inflight>>

Next ==
    \/ SendMessage \/ SendError \/ SendNotification
    \/ CloseMessages \/ CloseErrors \/ CloseNotifications
    \/ SendDone
    \/ RecvMessage \/ RecvMessageClosed
    \/ RecvError \/ RecvErrorClosed
    \/ RecvNotification \/ RecvNotificationClosed
    \/ RecvDone

Spec == Init /\ [][Next]_vars

\* Go's select chooses uniformly at random among the ready cases, so a case
\* that stays ready is eventually chosen
FairSpec == Spec /\ WF_vars(RecvDone)

TypeOK ==
    /\ pc \in {"idle", "running", "decoding", "stopped", "panicked", "killed"}
    /\ done \in 0..DoneCap
    /\ sent \in 0..1
    /\ produced \in 0..MaxEvents
    /\ decoder.kind \in {"json", "test"}

(***************************************************************************)
(* The loop on a consumer that also delivers nil values                    *)
(***************************************************************************)
\* the text %+v prints for a nil *cluster.Notification
NilNotification == "<nil>"

\* msgs <- nil
SendNilMessage ==
    /\ ~msgsClosed /\ produced < MaxEvents
    /\ msgs' = Append(msgs, NilMessage)
    /\ produced' = produced + 1
    /\ UNCHANGED <<decVars, bootVars>>
    /\ UNCHANGED <<errs, notifs, msgsClosed, errsClosed, notifsClosed,
                   done, sent, pc, decoder, log, decodeCalls, lastEvent>>
    /\ UNCHANGED <<startVars, inflight>>

\* errs <- nil
SendNilError ==
    /\ ~errsClosed /\ produced < MaxEvents
    /\ errs' = Append(errs, NilError)
    /\ produced' = produced + 1
    /\ UNCHANGED <<decVars, bootVars>>
    /\ UNCHANGED <<msgs, notifs, msgsClosed, errsClosed, notifsClosed,
                   done, sent, pc, decoder, log, decodeCalls, lastEvent>>
    /\ UNCHANGED <<startVars, inflight>>

\* notifs <- nil
SendNilNotification ==
    /\ ~notifsClosed /\ produced < MaxEvents
    /\ notifs' = Append(notifs, NilNotification)
    /\ produced' = produced + 1
    /\ UNCHANGED <<decVars, bootVars>>
    /\ UNCHANGED <<msgs, errs, msgsClosed, errsClosed, notifsClosed,
                   done, sent, pc, decoder, log, decodeCalls, lastEvent>>
    /\ UNCHANGED <<startVars, inflight>>

\* the message case on a nil message: msg.Offset dereferences the nil
\* pointer before anything is logged, and the goroutine panics
RecvNilMessage ==
    /\ LoopAlive
    /\ msgs # <<>>
    /\ IsNilMessage(Head(msgs))
    /\ msgs' = Tail(msgs)
    /\ lastEvent' = "message"
    /\ pc' = "panicked"
    /\ UNCHANGED <<decVars, bootVars>>
    /\ UNCHANGED <<errs, notifs, msgsClosed, errsClosed, notifsClosed,
                   done, sent, decoder, log, decodeCalls, produced>>
    /\ UNCHANGED <<startVars, inflight>>

\* the error case on a nil error: err.Error() is a method call on a nil
\* interface, and the goroutine panics
RecvNilError ==
    /\ LoopAlive
    /\ errs # <<>>
    /\ Head(errs) = NilError
    /\ errs' = Tail(errs)
    /\ lastEvent' = "error"
    /\ pc' = "panicked"
    /\ UNCHANGED <<decVars, bootVars>>
    /\ UNCHANGED <<msgs, notifs, msgsClosed, errsClosed, notifsClosed,
                   done, sent, decoder, log, decodeCalls, produced>>
    /\ UNCHANGED <<startVars, inflight>>

NilNext ==
    \/ Next
    \/ SendNilMessage \/ SendNilError \/ SendNilNotification
    \/ RecvNilMessage \/ RecvNilError

NilSpec == Init /\ [][NilNext]_vars

(***************************************************************************)
(* The message case in two steps: up to the call of Decode, and from the   *)
(* return of Decode to the end of the case body.  inflight holds the       *)
(* messages whose case body has started and not ended.                     *)
(***************************************************************************)
\* mutant: the case body is started with go and the loop selects again
BeginMessage_Spawns ==
    /\ LoopAlive
    /\ msgs # <<>>
    /\ ~IsNilMessage(Head(msgs))
    /\ LET msg == Head(msgs)
       IN /\ log' = log \o InitialLogging(msg)
          /\ decodeCalls' = Append(decodeCalls,
                                   [value |-> msg.Value, at |-> DecodeCallAt(log, msg)])
          /\ inflight' = Append(inflight, msg)
    /\ msgs' = Tail(msgs)
    /\ lastEvent' = "message"
    /\ pc' = "running"
    /\ UNCHANGED <<decVars, bootVars>>
    /\ UNCHANGED <<errs, notifs, msgsClosed, errsClosed, notifsClosed,
                   done, sent, decoder, produced, startVars>>

\* case msg, more := <-p.consumer.Messages(), more = true: the initial
\* logging, then the goroutine enters p.decoder.Decode(msg.Value)
BeginMessage ==
    /\ LoopAlive
    /\ msgs # <<>>
    /\ ~IsNilMessage(Head(msgs))
    /\ LET msg == Head(msgs)
       IN /\ log' = log \o InitialLogging(msg)
          /\ decodeCalls' = Append(decodeCalls,
                                   [value |-> msg.Value, at |-> DecodeCallAt(log, msg)])
          /\ inflight' = Append(inflight, msg)
    /\ msgs' = Tail(msgs)
    /\ lastEvent' = "message"
    /\ pc' = "decoding"
    /\ UNCHANGED <<decVars, bootVars>>
    /\ UNCHANGED <<errs, notifs, msgsClosed, errsClosed, notifsClosed,
                   done, sent, decoder, produced, startVars>>

\* Decode returns: the decode-error line or printJSON, then back to the select
FinishMessage ==
    /\ inflight # <<>>
    /\ LET msg == Head(inflight)
       IN log' = log \o DecodeLog(decoder) \o DecodeOutcome(Decode(decoder, msg.Value))
    /\ inflight' = Tail(inflight)
    /\ pc' = IF pc = "decoding" THEN LoopControl("message") ELSE pc
    /\ UNCHANGED <<decVars, bootVars>>
    /\ UNCHANGED <<msgs, errs, notifs, msgsClosed, errsClosed, notifsClosed,
                   done, sent, decoder, decodeCalls, lastEvent, produced, startVars>>

StepNext ==
    \/ SendMessage \/ SendError \/ SendNotification
    \/ CloseMessages \/ CloseErrors \/ CloseNotifications
    \/ SendDone
    \/ BeginMessage \/ FinishMessage \/ RecvMessageClosed
    \/ RecvError \/ RecvErrorClosed
    \/ RecvNotification \/ RecvNotificationClosed
    \/ RecvDone

StepSpec == Init /\ [][StepNext]_vars

(***************************************************************************)
(* main: parser.New, Serve, the wait for an OS signal and the shutdown     *)
(***************************************************************************)
\* JSONDecoder.ValidateSchemas: JSON has no schema
JSONValidateSchemas(schemas) == NilError

\* testDecoder.ValidateSchemas of the parser tests
TestValidateSchemas(d, schemas) ==
    IF d.shouldValidate THEN NilError ELSE "validate schemas test error"

\* decoder.ValidateSchemas(schemas): dispatch on the decoder passed to New
ValidateSchemas(d, schemas) ==
    CASE d.kind = "json" -> JSONValidateSchemas(schemas)
      [] d.kind = "avro" -> AvroValidateSchemas(d, schemas).err
      [] d.kind = "msgpack" -> MsgPackValidateSchemas(schemas)
      [] OTHER -> TestValidateSchemas(d, schemas)

\* the decoder after ValidateSchemas: only the AvroDecoder keeps state
ValidatedDecoder(d, schemas) ==
    IF d.kind = "avro" THEN AvroValidateSchemas(d, schemas).decoder ELSE d

\* the disk and codec steps of ValidateSchemas
ValidateSteps(d, schemas) ==
    IF d.kind = "avro" THEN AvroValidateSchemas(d, schemas).io ELSE <<>>

\* the decoders passed to parser.New
NewDecoders ==
    { [kind |-> "json", shouldDecode |-> TRUE, shouldValidate |-> TRUE],
      [kind |-> "test", shouldDecode |-> TRUE, shouldValidate |-> TRUE],
      [kind |-> "test", shouldDecode |-> FALSE, shouldValidate |-> TRUE],
      [kind |-> "test", shouldDecode |-> FALSE, shouldValidate |-> FALSE] }

\* the values of the -schemas flag
SchemaInputs == { "", "schemas" }

\* before New has returned
NoResult == [schemas |-> "", parser |-> "nil", err |-> NilError]

\* mutant: New returns the Parser without looking at the validation error
NewReturn_IgnoresError(schemas, err) ==
    [schemas |-> schemas, parser |-> "parser", err |-> NilError]

\* what New returns for the error of ValidateSchemas
NewReturn(schemas, err) ==
    IF err # NilError
    THEN [schemas |-> schemas, parser |-> "nil", err |-> err]
    ELSE [schemas |-> schemas, parser |-> "parser", err |-> NilError]

MainInit ==
    /\ msgs = <<>> /\ errs = <<>> /\ notifs = <<>>
    /\ msgsClosed = FALSE /\ errsClosed = FALSE /\ notifsClosed = FALSE
    /\ done = 0
    /\ sent = 0
    /\ pc = "idle"
    /\ decoder \in NewDecoders
    /\ log = <<>>
    /\ decodeCalls = <<>>
    /\ lastEvent = "none"
    /\ produced = 0
    /\ mainPc = "new"
    /\ newResult = NoResult
    /\ validateCalls = <<>>
    /\ inflight = <<>>
    /\ decoded = <<>>
    /\ ioTrace = <<>>
    /\ args = NoArgs
    /\ consumerConn = "connected"
    /\ pluginCalls = <<>>
    /\ backoffs = <<>>

\* parser, err := parser.New(consumer, *topic, *schemas, decoder, log)
New ==
    /\ mainPc = "new"
    /\ \E schemas \in (IF args.parsed THEN {args.schemas} ELSE SchemaInputs) :
          /\ validateCalls' = Append(validateCalls, schemas)
          /\ newResult' = NewReturn(schemas, ValidateSchemas(decoder, schemas))
          /\ decoder' = ValidatedDecoder(decoder, schemas)
    /\ mainPc' = IF newResult'.err # NilError THEN "fatal" ELSE "serve"
    /\ UNCHANGED <<decVars, bootVars>>
    /\ UNCHANGED <<msgs, errs, notifs, msgsClosed, errsClosed, notifsClosed,
                   done, sent, pc, log, decodeCalls, lastEvent, produced,
                   inflight>>

\* log.Fatalf("Could not initialize parser: %s", err.Error())
MainFatal ==
    /\ mainPc = "fatal"
    /\ log' = Append(log, Entry("main", "fatal", "Could not initialize parser: %s",
                                <<newResult.err>>))
    /\ mainPc' = "exited"
    /\ UNCHANGED <<decVars, bootVars>>
    /\ UNCHANGED <<msgs, errs, notifs, msgsClosed, errsClosed, notifsClosed,
                   done, sent, pc, decoder, decodeCalls, lastEvent, produced,
                   newResult, validateCalls, inflight>>

\* done := parser.Serve(): the handle is made and the goroutine started
Serve ==
    /\ mainPc = "serve"
    /\ done' = 0
    /\ pc' = "running"
    /\ mainPc' = "wait_signal"
    /\ UNCHANGED <<decVars, bootVars>>
    /\ UNCHANGED <<msgs, errs, notifs, msgsClosed, errsClosed, notifsClosed,
                   sent, decoder, log, decodeCalls, lastEvent, produced,
                   newResult, validateCalls, inflight>>

\* <-signals: an OS signal arrives
OSSignal ==
    /\ mainPc = "wait_signal"
    /\ mainPc' = "send_done"
    /\ UNCHANGED <<decVars, bootVars>>
    /\ UNCHANGED <<msgs, errs, notifs, msgsClosed, errsClosed, notifsClosed,
                   done, sent, pc, decoder, log, decodeCalls, lastEvent, produced,
                   newResult, validateCalls, inflight>>

\* done <- struct{}{} in main
MainSendDone ==
    /\ mainPc = "send_done"
    /\ done < DoneCap
    /\ done' = done + 1
    /\ sent' = sent + 1
    /\ mainPc' = "return"
    /\ UNCHANGED <<decVars, bootVars>>
    /\ UNCHANGED <<msgs, errs, notifs, msgsClosed, errsClosed, notifsClosed,
                   pc, decoder, log, decodeCalls, lastEvent, produced,
                   newResult, validateCalls, inflight>>

\* main returns: the process exits and takes the Serve goroutine with it
MainExit ==
    /\ mainPc = "return"
    /\ mainPc' = "exited"
    /\ pc' = IF pc = "running" THEN "killed" ELSE pc
    /\ UNCHANGED <<decVars, bootVars>>
    /\ UNCHANGED <<msgs, errs, notifs, msgsClosed, errsClosed, notifsClosed,
                   done, sent, decoder, log, decodeCalls, lastEvent, produced,
                   newResult, validateCalls, inflight>>

MainNext ==
    \/ New \/ MainFatal \/ Serve \/ OSSignal \/ MainSendDone \/ MainExit
    \/ SendMessage \/ SendError \/ SendNotification
    \/ CloseMessages \/ CloseErrors \/ CloseNotifications
    \/ RecvMessage \/ RecvMessageClosed
    \/ RecvError \/ RecvErrorClosed
    \/ RecvNotification \/ RecvNotificationClosed
    \/ RecvDone

MainSpec == MainInit /\ [][MainNext]_vars


(***************************************************************************)
(* A decoder called directly, the way the tests of pkg/decoders call it:   *)
(* any sequence of ValidateSchemas and Decode calls on one decoder value.  *)
(* ioTrace holds one entry per ValidateSchemas call (the argument, the     *)
(* error returned and the disk and codec steps taken), decoded one entry   *)
(* per Decode call (the decoder as it was at the call, the payload, what   *)
(* came back, and how many ValidateSchemas calls had been made before).    *)
(***************************************************************************)
\* number of calls made on the decoder
MaxCalls == 3

\* &decoders.JSONDecoder{Log: log}
JSONDecoder == [kind |-> "json"]

\* records of the test schema: the one of TestDecodeSuccessNoConverter
\* ("f", "l", "{}"), and one with empty fields
TestRecords ==
    { GoMap([firstName |-> GoString(<<102>>), lastName |-> GoString(<<108>>),
             json |-> GoBytes(<<123, 125>>)]),
      GoMap([firstName |-> GoString(<<>>), lastName |-> GoString(<<102, 108>>),
             json |-> GoBytes(<<>>)]) }

KidOf(n) == GoMap([n |-> GoInt64(n)])

\* records of the nested schema: empty arrays; arrays of strings, of records
\* and of arrays of records; a long that takes two bytes and a negative one
NestedRecords ==
    { GoMap([kid |-> KidOf(0), tags |-> GoSlice(<<>>), kids |-> GoSlice(<<>>),
             grid |-> GoSlice(<<>>)]),
      GoMap([kid |-> KidOf(64), tags |-> GoSlice(<<GoString(<<97>>)>>),
             kids |-> GoSlice(<<KidOf(-1)>>),
             grid |-> GoSlice(<<>>)]),
      GoMap([kid |-> KidOf(1), tags |-> GoSlice(<<>>),
             kids |-> GoSlice(<<KidOf(2), KidOf(3)>>),
             grid |-> GoSlice(<< GoSlice(<<KidOf(4)>>), GoSlice(<<>>) >>)]) }

\* Avro payloads: the encodings of the records, one of them cut short, one
\* followed by another byte, an array written as a block with a negative
\* count, and the empty payload
AvroPayloads ==
    { BinaryFromNative(TestSchema, r) : r \in TestRecords }
    \cup { BinaryFromNative(NestedSchema, r) : r \in NestedRecords }
    \cup { <<>>, <<2, 102, 2>>, <<2, 102, 2, 108, 4, 123, 125, 0>>,
           <<2, 1, 4, 2, 97, 0, 0, 0>> }

\* MsgPack payloads: {}, {"a": "b"}, {"a": "b", "c": ""}, a map cut short,
\* a value that is not a map, and the empty payload
MsgPackPayloads ==
    { <<128>>, <<129, 161, 97, 161, 98>>,
      <<130, 161, 97, 161, 98, 161, 99, 160>>,
      <<129, 161, 97>>, <<1>>, <<>> }

\* JSON payloads: nil, empty, a document and a cut document
JSONPayloads == { NilBytes, EmptyBytes, ValidDoc, InvalidDoc }

\* the built-in decoders as getDecoder makes them, and an AvroDecoder with the
\* testConverter of avro_test.go
BuiltinDecoders ==
    { JSONDecoder, MsgPackDecoder,
      AvroDecoder(NilConverter), AvroDecoder(TestConverter) }

Payloads(d) ==
    CASE d.kind = "json" -> JSONPayloads
      [] d.kind = "msgpack" -> MsgPackPayloads
      [] d.kind = "avro" -> AvroPayloads

\* mutant: Decode uses its codec up
DecoderAfterDecode_DropsCodec(d, msg) ==
    IF d.kind = "avro" THEN [d EXCEPT !.codec = NilCodec] ELSE d

\* the decoder after Decode: no Decode method assigns a field of its receiver
DecoderAfterDecode(d, msg) == d

DecoderInit ==
    /\ msgs = <<>> /\ errs = <<>> /\ notifs = <<>>
    /\ msgsClosed = FALSE /\ errsClosed = FALSE /\ notifsClosed = FALSE
    /\ done = 0
    /\ sent = 0
    /\ pc = "idle"
    /\ decoder \in BuiltinDecoders
    /\ log = <<>>
    /\ decodeCalls = <<>>
    /\ lastEvent = "none"
    /\ produced = 0
    /\ mainPc = "none"
    /\ newResult = NoResult
    /\ validateCalls = <<>>
    /\ inflight = <<>>
    /\ decoded = <<>>
    /\ ioTrace = <<>>
    /\ args = NoArgs
    /\ consumerConn = "none"
    /\ pluginCalls = <<>>
    /\ backoffs = <<>>

\* err := decoder.ValidateSchemas(schemas)
CallValidateSchemas ==
    /\ Len(ioTrace) + Len(decoded) < MaxCalls
    /\ \E schemas \in SchemaPaths :
          /\ ioTrace' = Append(ioTrace,
                               [schemas |-> schemas,
                                err |-> ValidateSchemas(decoder, schemas),
                                steps |-> ValidateSteps(decoder, schemas)])
          /\ validateCalls' = Append(validateCalls, schemas)
          /\ decoder' = ValidatedDecoder(decoder, schemas)
    /\ UNCHANGED <<msgs, errs, notifs, msgsClosed, errsClosed, notifsClosed,
                   done, sent, pc, log, decodeCalls, lastEvent, produced,
                   mainPc, newResult, inflight, decoded, bootVars>>

\* decoded, err := decoder.Decode(msg)
CallDecode ==
    /\ Len(ioTrace) + Len(decoded) < MaxCalls
    /\ \E msg \in Payloads(decoder) :
          /\ decoded' = Append(decoded,
                               [decoder |-> decoder,
                                payload |-> msg,
                                data |-> Decode(decoder, msg).data,
                                err |-> Decode(decoder, msg).err,
                                validates |-> Len(ioTrace)])
          /\ decoder' = DecoderAfterDecode(decoder, msg)
    /\ log' = log \o DecodeLog(decoder)
    /\ UNCHANGED <<msgs, errs, notifs, msgsClosed, errsClosed, notifsClosed,
                   done, sent, pc, decodeCalls, lastEvent, produced,
                   startVars, inflight, ioTrace, bootVars>>

DecoderNext == CallValidateSchemas \/ CallDecode

DecoderSpec == DecoderInit /\ [][DecoderNext]_vars


(***************************************************************************)
(* main from flag.Parse to parser.New: checkArgs, getTLSConfig,            *)
(* newConsumer and getDecoder.  consumerConn is "connected" once           *)
(* newConsumer has returned a consumer; nothing in main closes it.         *)
(* pluginCalls holds the calls of loadPlugin, in order.                    *)
(***************************************************************************)
errNoBrokers == "at least one broker URL is required"
errNoTopic == "a topic is required"
errNoType == "a message type or path to type plugin is required"
errNoSchemas == "a schema is required for message type Avro"

\* the lower-case form of the type strings used here
ToLower(str) ==
    CASE str \in {"AVRO", "Avro"} -> "avro"
      [] str = "JSON" -> "json"
      [] OTHER -> str

\* strings.EqualFold
EqualFold(a, b) == ToLower(a) = ToLower(b)

\* mutant: the topic is checked before the brokers
checkArgs_TopicFirst(a) ==
    IF a.topic = "" THEN errNoTopic
    ELSE IF a.brokers = "" THEN errNoBrokers
    ELSE IF a.msgType = "" THEN errNoType
    ELSE IF EqualFold(a.msgType, "avro") /\ a.schemas = <<>> THEN errNoSchemas
    ELSE NilError

\* checkArgs: the first check that fails decides the error
checkArgs(a) ==
    IF a.brokers = "" THEN errNoBrokers
    ELSE IF a.topic = "" THEN errNoTopic
    ELSE IF a.msgType = "" THEN errNoType
    ELSE IF EqualFold(a.msgType, "avro") /\ a.schemas = <<>> THEN errNoSchemas
    ELSE NilError

\* what a plugin file exports: the symbol, the interfaces its value
\* satisfies and the value
Symbol(implements, value) == [implements |-> implements, value |-> value]

\* the Decoder of examples/msgpack.go, built as a plugin
PluginDecoder(path) == [kind |-> "msgpack", plugin |-> path]

\* the plugin files on disk: a decoder, a converter and a TLS configurator
\* plugin, a TLS plugin whose GetConfig fails, a plugin that exports
\* nothing, and one whose exported values have the wrong type
PluginFiles ==
    [ decoder_so |-> [Decoder |-> Symbol({"Decoder"}, PluginDecoder("decoder_so"))],
      converter_so |-> [Converter |-> Symbol({"Converter"}, TestConverter)],
      tls_so |-> [TLS |-> Symbol({"TLSConfigurator"}, "tls.Config")],
      tls_fail_so |-> [TLS |-> Symbol({"TLSConfigurator"}, "error")],
      empty_so |-> <<>>,
      wrong_so |-> [Decoder |-> Symbol({}, "int"),
                    Converter |-> Symbol({}, "int"),
                    TLS |-> Symbol({}, "int")] ]

NilSymbol == Symbol({}, "nil")

\* loadPlugin: plugin.Open, then Lookup of the symbol
loadPlugin(pluginPath, symbolName) ==
    IF pluginPath \notin DOMAIN PluginFiles
    THEN [symbol |-> NilSymbol, err |-> "plugin.Open: no such file"]
    ELSE IF symbolName \notin DOMAIN PluginFiles[pluginPath]
    THEN [symbol |-> NilSymbol, err |-> "plugin: symbol not found"]
    ELSE [symbol |-> PluginFiles[pluginPath][symbolName], err |-> NilError]

PluginCall(pluginPath, symbolName) == [path |-> pluginPath, symbol |-> symbolName]

\* no decoder yet
NoDecoder == [kind |-> "none"]

\* what a step of main leaves behind: the value it produced, the loadPlugin
\* calls it made, how it ended ("ok", "fatal" for log.Fatalf, "panic" for a
\* failed type assertion) and the line log.Fatalf wrote
Outcome(value, loads, exit, entries) ==
    [value |-> value, loads |-> loads, exit |-> exit, entries |-> entries]

\* mutant: the type is compared the way checkArgs compares it
getDecoder_FoldsCase(msgType, converterPath) ==
    IF EqualFold(msgType, "json") THEN Outcome(JSONDecoder, <<>>, "ok", <<>>)
    ELSE IF EqualFold(msgType, "msgpack") THEN Outcome(MsgPackDecoder, <<>>, "ok", <<>>)
    ELSE IF EqualFold(msgType, "avro")
    THEN IF converterPath # ""
         THEN LET sym == loadPlugin(converterPath, "Converter")
              IN IF sym.err # NilError
                 THEN Outcome(NoDecoder, << PluginCall(converterPath, "Converter") >>,
                              "fatal",
                              << Entry("main", "fatal", "Error loading avro converter: %s\n",
                                       <<sym.err>>) >>)
                 ELSE IF "Converter" \notin sym.symbol.implements
                 THEN Outcome(NoDecoder, << PluginCall(converterPath, "Converter") >>,
                              "panic", <<>>)
                 ELSE Outcome(AvroDecoder(sym.symbol.value),
                              << PluginCall(converterPath, "Converter") >>, "ok", <<>>)
         ELSE Outcome(AvroDecoder(NilConverter), <<>>, "ok", <<>>)
    ELSE LET sym == loadPlugin(msgType, "Decoder")
         IN IF sym.err # NilError
            THEN Outcome(NoDecoder, << PluginCall(msgType, "Decoder") >>, "fatal",
                         << Entry("main", "fatal", "Error loading %s decoder: %s\n",
                                  <<msgType, sym.err>>) >>)
            ELSE IF "Decoder" \notin sym.symbol.implements
            THEN Outcome(NoDecoder, << PluginCall(msgType, "Decoder") >>, "panic", <<>>)
            ELSE Outcome(sym.symbol.value, << PluginCall(msgType, "Decoder") >>,
                         "ok", <<>>)

\* getDecoder: the three built-in names are compared exactly; any other type
\* is the path of a plugin that exports Decoder
getDecoder(msgType, converterPath) ==
    IF msgType = "json" THEN Outcome(JSONDecoder, <<>>, "ok", <<>>)
    ELSE IF msgType = "msgpack" THEN Outcome(MsgPackDecoder, <<>>, "ok", <<>>)
    ELSE IF msgType = "avro"
    THEN IF converterPath # ""
         THEN LET sym == loadPlugin(converterPath, "Converter")
              IN IF sym.err # NilError
                 THEN Outcome(NoDecoder, << PluginCall(converterPath, "Converter") >>,
                              "fatal",
                              << Entry("main", "fatal", "Error loading avro converter: %s\n",
                                       <<sym.err>>) >>)
                 ELSE IF "Converter" \notin sym.symbol.implements
                 THEN Outcome(NoDecoder, << PluginCall(converterPath, "Converter") >>,
                              "panic", <<>>)
                 ELSE Outcome(AvroDecoder(sym.symbol.value),
                              << PluginCall(converterPath, "Converter") >>, "ok", <<>>)
         ELSE Outcome(AvroDecoder(NilConverter), <<>>, "ok", <<>>)
    ELSE LET sym == loadPlugin(msgType, "Decoder")
         IN IF sym.err # NilError
            THEN Outcome(NoDecoder, << PluginCall(msgType, "Decoder") >>, "fatal",
                         << Entry("main", "fatal", "Error loading %s decoder: %s\n",
                                  <<msgType, sym.err>>) >>)
            ELSE IF "Decoder" \notin sym.symbol.implements
            THEN Outcome(NoDecoder, << PluginCall(msgType, "Decoder") >>, "panic", <<>>)
            ELSE Outcome(sym.symbol.value, << PluginCall(msgType, "Decoder") >>,
                         "ok", <<>>)

\* the certificate and key files that can be loaded
CertFiles == { "client.crt", "client.key", "ca.crt" }

\* newTLSConfig: the key pair is loaded, then the CA certificate is read
newTLSConfig(clientCertFile, clientKeyFile, caCertFile) ==
    IF clientCertFile \notin CertFiles \/ clientKeyFile \notin CertFiles
    THEN "tls: failed to load key pair"
    ELSE IF caCertFile \notin CertFiles THEN "open: no such file or directory"
    ELSE NilError

\* getTLSConfig: a plugin that exports TLS, or the three certificate flags,
\* or no TLS at all; the error is handed to main
getTLSConfig(a) ==
    IF a.tlsConfigPath # ""
    THEN LET sym == loadPlugin(a.tlsConfigPath, "TLS")
         IN IF sym.err # NilError
            THEN Outcome(sym.err, << PluginCall(a.tlsConfigPath, "TLS") >>, "fatal", <<>>)
            ELSE IF "TLSConfigurator" \notin sym.symbol.implements
            THEN Outcome(NilError, << PluginCall(a.tlsConfigPath, "TLS") >>, "panic", <<>>)
            ELSE IF sym.symbol.value = "error"
            THEN Outcome("GetConfig failed", << PluginCall(a.tlsConfigPath, "TLS") >>,
                         "fatal", <<>>)
            ELSE Outcome(NilError, << PluginCall(a.tlsConfigPath, "TLS") >>, "ok", <<>>)
    ELSE IF a.clientCert # "" /\ a.clientKey # "" /\ a.caCert # ""
    THEN LET err == newTLSConfig(a.clientCert, a.clientKey, a.caCert)
         IN Outcome(err, <<>>, IF err # NilError THEN "fatal" ELSE "ok", <<>>)
    ELSE Outcome(NilError, <<>>, "ok", <<>>)

\* mutant: main goes on to the next step whatever the step returned
AfterStep_Continues(exit, next) == next

\* where main goes after a step that ended in the given way
AfterStep(exit, next) ==
    CASE exit = "ok" -> next
      [] exit = "fatal" -> "exited"
      [] exit = "panic" -> "panicked"

\* the values of -type: the built-in names, the same names in other
\* letter cases, and plugin paths (good, not on disk, exporting nothing,
\* exporting the wrong type)
TypeInputs ==
    { "json", "msgpack", "avro", "AVRO", "JSON",
      "decoder_so", "missing_so", "empty_so", "wrong_so" }

\* the values of -converter
ConverterInputs == { "", "converter_so", "missing_so", "empty_so", "wrong_so" }

\* the values of -schemas given to main: none, a schema file, a wrong extension
BootSchemas == { <<>>, <<"test_schema", ".avsc">>, <<"test", ".json">> }

\* the values of the four TLS flags
TLSInputs ==
    { NoTLS,
      <<"tls_so", "", "", "">>, <<"tls_fail_so", "", "", "">>,
      <<"missing_so", "", "", "">>, <<"wrong_so", "", "", "">>,
      <<"", "client.crt", "client.key", "ca.crt">>,
      <<"", "client.crt", "client.key", "">>,
      <<"", "client.crt", "missing.key", "ca.crt">>,
      <<"", "client.crt", "client.key", "missing.crt">> }

\* the command lines: every type with every converter and schemas value, and
\* command lines with a flag missing or with TLS flags
BootArgs ==
    { Args("broker:9092", "topic", t, sch, c, NoTLS) :
          t \in TypeInputs, sch \in BootSchemas, c \in ConverterInputs }
    \cup { Args(b, tp, t, <<"test_schema", ".avsc">>, "", tls) :
              b \in {"", "broker:9092"}, tp \in {"", "topic"},
              t \in {"", "json", "avro"}, tls \in TLSInputs }

BootInit ==
    /\ msgs = <<>> /\ errs = <<>> /\ notifs = <<>>
    /\ msgsClosed = FALSE /\ errsClosed = FALSE /\ notifsClosed = FALSE
    /\ done = 0
    /\ sent = 0
    /\ pc = "idle"
    /\ decoder = NoDecoder
    /\ log = <<>>
    /\ decodeCalls = <<>>
    /\ lastEvent = "none"
    /\ produced = 0
    /\ mainPc = "check_args"
    /\ newResult = NoResult
    /\ validateCalls = <<>>
    /\ inflight = <<>>
    /\ decoded = <<>>
    /\ ioTrace = <<>>
    /\ args \in BootArgs
    /\ consumerConn = "none"
    /\ pluginCalls = <<>>
    /\ backoffs = <<>>

\* err := checkArgs(...); log.Fatalf("Could not validate args: %s", ...)
CheckArgs ==
    /\ mainPc = "check_args"
    /\ LET err == checkArgs(args)
       IN IF err # NilError
          THEN /\ log' = Append(log, Entry("main", "fatal",
                                           "Could not validate args: %s", <<err>>))
               /\ mainPc' = "exited"
          ELSE /\ log' = log
               /\ mainPc' = "tls"
    /\ UNCHANGED <<msgs, errs, notifs, msgsClosed, errsClosed, notifsClosed,
                   done, sent, pc, decoder, decodeCalls, lastEvent, produced,
                   newResult, validateCalls, inflight, decVars, bootVars>>

\* tlsConfig, err := getTLSConfig(...); log.Fatalf("Failed to create TLS
\* config: %s", ...)
GetTLSConfig ==
    /\ mainPc = "tls"
    /\ LET r == getTLSConfig(args)
       IN /\ pluginCalls' = pluginCalls \o r.loads
          /\ log' = IF r.exit = "fatal"
                    THEN Append(log, Entry("main", "fatal",
                                           "Failed to create TLS config: %s", <<r.value>>))
                    ELSE log
          /\ mainPc' = AfterStep(r.exit, "consumer")
    /\ UNCHANGED <<msgs, errs, notifs, msgsClosed, errsClosed, notifsClosed,
                   done, sent, pc, decoder, decodeCalls, lastEvent, produced,
                   newResult, validateCalls, inflight, decVars, args, consumerConn,
                   backoffs>>

\* ---- int64 and time.Duration ----
\* An int64 is held as its eight bytes in two's complement, the least
\* significant first, so that arithmetic wraps as the machine's does.
\* the int64 of a small natural number
Int64(n) == [i \in 1..8 |-> IF i <= 4 THEN (n \div 256^(i-1)) % 256 ELSE 0]

RECURSIVE Column(_, _, _, _)
\* the sum of the byte products that fall on byte i of a product
Column(a, b, i, j) ==
    IF j > i THEN 0 ELSE a[j] * b[i - j + 1] + Column(a, b, i, j + 1)

RECURSIVE MulBytes(_, _, _, _)
MulBytes(a, b, i, carry) ==
    IF i > 8 THEN <<>>
    ELSE LET s == carry + Column(a, b, i, 1)
         IN << s % 256 >> \o MulBytes(a, b, i + 1, s \div 256)

\* a * b on int64: the carry out of the eighth byte is lost
Mul64(a, b) == MulBytes(a, b, 1, 0)

IsNegative(d) == d[8] >= 128

RECURSIVE AddOne(_, _)
AddOne(d, i) ==
    IF i > 8 THEN <<>>
    ELSE IF d[i] = 255 THEN <<0>> \o AddOne(d, i + 1)
    ELSE <<d[i] + 1>> \o SubSeq(d, i + 1, 8)

\* -d on int64
Neg64(d) == AddOne([i \in 1..8 |-> 255 - d[i]], 1)

RECURSIVE DivBytes(_, _, _, _)
\* long division of a non-negative int64 by a small divisor, from the most
\* significant byte down
DivBytes(d, n, i, rem) ==
    IF i = 0 THEN <<>>
    ELSE LET cur == rem * 256 + d[i]
         IN DivBytes(d, n, i - 1, cur % n) \o << cur \div n >>

\* d / n on int64 for a small positive n: Go truncates toward zero
Div64(d, n) ==
    IF IsNegative(d) THEN Neg64(DivBytes(Neg64(d), n, 8, 0))
    ELSE DivBytes(d, n, 8, 0)

\* time.Millisecond, in nanoseconds
Millisecond == 1000000

\* time.Duration(math.Pow(2, counter)): the power of two is exact in a
\* float64 and fits an int64 while counter is below 63
DurationPow2(counter) ==
    [i \in 1..8 |-> IF i = (counter \div 8) + 1 THEN 2^(counter % 8) ELSE 0]

\* mutant: the backoff grows by 100ms for each failure
Backoff_Linear(counter) == Mul64(Int64(100 * Millisecond), Int64(counter + 1))

\* backoff := 100 * time.Millisecond * time.Duration(math.Pow(2, counter))
Backoff(counter) == Mul64(Int64(100 * Millisecond), DurationPow2(counter))

\* var counter = 1.; counter++ after every failed attempt
counter == Len(backoffs) + 1

\* the error of cluster.NewConsumer
ErrOutOfBrokers == "kafka: client has run out of available brokers to talk to"

\* newConsumer, one round of the loop in which cluster.NewConsumer fails: the
\* backoff is computed, the counter goes up, two lines are logged and the
\* goroutine sleeps for the backoff
ConsumerRetry ==
    /\ mainPc = "consumer"
    /\ Len(backoffs) < MaxRetries
    /\ LET backoff == Backoff(counter)
       IN /\ log' = log \o << Entry("main", "error", "Unable to start consumer: %s",
                                    <<ErrOutOfBrokers>>),
                              Entry("main", "error", "Backing off for %d ms...",
                                    << Div64(backoff, Millisecond) >>) >>
          /\ backoffs' = Append(backoffs, backoff)
    /\ UNCHANGED <<msgs, errs, notifs, msgsClosed, errsClosed, notifsClosed,
                   done, sent, pc, decoder, decodeCalls, lastEvent, produced,
                   mainPc, newResult, validateCalls, inflight, decVars,
                   args, consumerConn, pluginCalls>>

\* consumer := newConsumer(...): cluster.NewConsumer succeeds, the loop is
\* left and the consumer returned
NewConsumer ==
    /\ mainPc = "consumer"
    /\ consumerConn' = "connected"
    /\ mainPc' = "get_decoder"
    /\ UNCHANGED <<msgs, errs, notifs, msgsClosed, errsClosed, notifsClosed,
                   done, sent, pc, decoder, log, decodeCalls, lastEvent, produced,
                   newResult, validateCalls, inflight, decVars, args, pluginCalls,
                   backoffs>>

\* decoder := getDecoder(*msgType, *converterPath)
GetDecoder ==
    /\ mainPc = "get_decoder"
    /\ LET r == getDecoder(args.msgType, args.converterPath)
       IN /\ decoder' = r.value
          /\ pluginCalls' = pluginCalls \o r.loads
          /\ log' = log \o r.entries
          /\ mainPc' = AfterStep(r.exit, "new")
    /\ UNCHANGED <<msgs, errs, notifs, msgsClosed, errsClosed, notifsClosed,
                   done, sent, pc, decodeCalls, lastEvent, produced,
                   newResult, validateCalls, inflight, decVars, args, consumerConn,
                   backoffs>>

BootNext ==
    \/ CheckArgs \/ GetTLSConfig \/ ConsumerRetry \/ NewConsumer \/ GetDecoder
    \/ New \/ MainFatal \/ Serve \/ OSSignal \/ MainSendDone \/ MainExit
    \/ RecvDone

BootSpec == BootInit /\ [][BootNext]_vars


(***************************************************************************)
(* Vocabulary of the properties                                            *)
(***************************************************************************)
Last(q) == q[Len(q)]

\* the entries a step appends to the log
NewEntries == SubSeq(log', Len(log) + 1, Len(log'))

\* the entries of a sequence that the loop itself wrote
FromLoop(entries) == SelectSeq(entries, LAMBDA e : e.src = "loop")

\* the positions of a sequence of entries that carry the given format
Lines(entries, kind) == { i \in DOMAIN entries : entries[i].kind = kind }

\* the formats of the three ways the handling of a message can end
OutcomeKinds == { "Message:\n%s", "Error decoding message: %s",
                  "Could not process message: %s" }

\* a step in which the loop receives a value from a channel
ReceivesMessage == Len(msgs') < Len(msgs)
ReceivesError == Len(errs') < Len(errs)
ReceivesNotification == Len(notifs') < Len(notifs)
ReceivesDone == done' < done

NonNil(headers) == SelectSeq(headers, LAMBDA h : ~h.nil)

(***************************************************************************)
(* Properties of the dispatch loop                                         *)
(***************************************************************************)

\* C1: once the loop has taken the shutdown case it is stopped for good: no
\* later step receives a message, an error, a notification or a second
\* signal, calls Decode or writes to the log, whatever is pending on the
\* channels.
C1_StoppedIsTerminal ==
    [][pc = "stopped" =>
         /\ pc' = "stopped"
         /\ ~ReceivesMessage /\ ~ReceivesError /\ ~ReceivesNotification
         /\ ~ReceivesDone
         /\ decodeCalls' = decodeCalls
         /\ log' = log
         /\ lastEvent' = lastEvent]_vars

C1_Witness ==
    /\ pc = "stopped"
    /\ msgs # <<>> /\ errs # <<>> /\ notifs # <<>>

\* C2: when the loop has stopped on the shutdown signal the log holds exactly
\* one summary line, and that line reports the number of messages handled.
C2_OneSummaryLine ==
    pc = "stopped" =>
      /\ Cardinality(Lines(log, "Processed a total of %d messages.")) = 1
      /\ \A i \in Lines(log, "Processed a total of %d messages.") :
            log[i].text = <<ToString(Len(decodeCalls))>>

\* C3: after the one shutdown signal has been sent the loop eventually stops,
\* also while other cases of the select stay ready.
C3_ShutdownEventuallyStops == (sent = 1) ~> (pc = "stopped")

C3_Witness ==
    /\ sent = 1 /\ done = 0 /\ pc = "stopped"
    /\ Len(msgs) >= 2

\* C4: the loop leaves the running state only in a step that takes the
\* signal from the shutdown handle; no message, error, notification or
\* closed channel ends it.
C4_OnlyShutdownStops ==
    [][pc = "running" /\ pc' # "running" =>
         ReceivesDone /\ lastEvent' = "shutdown"]_vars

C4_Witness ==
    /\ pc = "running"
    /\ lastEvent = "notifications_closed"
    /\ Lines(log, "Error decoding message: %s") # {}
    /\ Lines(log, "Could not process message: %s") # {}

\* the last message handed to Decode was rejected by the decoder
LastDecodeFailed ==
    /\ decodeCalls # <<>>
    /\ Lines(FromLoop(log), "Error decoding message: %s") # {}
    /\ \A i \in Lines(FromLoop(log), "Offset: %d") :
          \E j \in Lines(FromLoop(log), "Error decoding message: %s") : j > i

\* C5: a decode failure leaves the loop running, and the message received
\* next is handled in full: its offset is logged, its value is passed to
\* Decode, and when the decoder accepts a well-formed document the message
\* line is printed.
C5_NextMessageAfterDecodeFailure ==
    [][/\ (ReceivesMessage /\ Lines(NewEntries, "Error decoding message: %s") # {})
            => pc' = "running"
       /\ (LastDecodeFailed /\ ReceivesMessage) =>
            LET msg == Head(msgs)
            IN /\ NewEntries[1].kind = "Offset: %d"
               /\ NewEntries[1].text = <<ToString(msg.Offset)>>
               /\ Len(decodeCalls') = Len(decodeCalls) + 1
               /\ Last(decodeCalls').value = msg.Value
               /\ Lines(NewEntries, "Error decoding message: %s") = {} =>
                     /\ Last(NewEntries).kind \in
                           {"Message:\n%s", "Could not process message: %s"}
                     /\ ValidJSON(msg.Value) =>
                           Last(NewEntries).kind = "Message:\n%s"]_vars

C5_Witness ==
    \E i, j \in DOMAIN log :
       /\ i < j
       /\ log[i].kind = "Error decoding message: %s"
       /\ log[j].kind = "Message:\n%s"

\* C6: when Decode returns an error the loop writes one error-level entry,
\* the decode-failure line with the error's text, and printJSON writes
\* nothing: neither a message line nor a could-not-process line.
C6_DecodeFailureLogsOneError ==
    [][(ReceivesMessage /\ Decode(decoder, Head(msgs).Value).err # NilError) =>
         LET new == FromLoop(NewEntries)
             errors == { i \in DOMAIN new : new[i].level = "error" }
         IN /\ Cardinality(errors) = 1
            /\ \A i \in errors :
                  /\ new[i].kind = "Error decoding message: %s"
                  /\ new[i].text = <<Decode(decoder, Head(msgs).Value).err>>
            /\ Lines(new, "Message:\n%s") = {}
            /\ Lines(new, "Could not process message: %s") = {}]_vars

C6_Witness ==
    /\ lastEvent = "message"
    /\ log # <<>>
    /\ Last(log).kind = "Error decoding message: %s"
    /\ Last(log).level = "error"

\* C7: the entries of one message are, in this order, the offset line, the
\* headers marker, one line per non-nil header in the order of the message,
\* and only then what Decode and the outcome write; Decode is called after
\* the last header line.
C7_HeaderLinesBeforeDecode ==
    [][ReceivesMessage =>
         LET msg == Head(msgs)
             hs == NonNil(msg.Headers)
             h == Len(hs)
         IN /\ Len(NewEntries) >= h + 3
            /\ NewEntries[1].kind = "Offset: %d"
            /\ NewEntries[1].text = <<ToString(msg.Offset)>>
            /\ NewEntries[2].kind = "Headers:"
            /\ \A k \in 1..h :
                  /\ NewEntries[2 + k].kind = "\t%s: %s"
                  /\ NewEntries[2 + k].text = <<hs[k].Key, hs[k].Value>>
            /\ \A k \in (h + 3)..Len(NewEntries) :
                  NewEntries[k].kind \in OutcomeKinds \/ NewEntries[k].src = "decoder"
            /\ Last(NewEntries).kind \in OutcomeKinds
            /\ Last(decodeCalls').at = Len(log) + h + 2]_vars

C7_Witness ==
    /\ lastEvent = "message"
    /\ \E i \in DOMAIN log :
          /\ i + 2 <= Len(log)
          /\ log[i].text = <<"k2", "v2">>
          /\ log[i + 1].text = <<"k1", "v1">>
          /\ log[i + 2].src = "decoder"

\* C8: a message with h non-nil headers makes the loop write h + 3 entries:
\* the offset line, the headers marker, h header lines and exactly one
\* outcome line.
C8_EntriesPerMessage ==
    [][ReceivesMessage =>
         LET new == FromLoop(NewEntries)
             h == Len(NonNil(Head(msgs).Headers))
         IN /\ Len(new) = h + 3
            /\ Cardinality(Lines(new, "Offset: %d")) = 1
            /\ Cardinality(Lines(new, "Headers:")) = 1
            /\ Cardinality(Lines(new, "\t%s: %s")) = h
            /\ Cardinality({ i \in DOMAIN new : new[i].kind \in OutcomeKinds }) = 1
            /\ \A i \in Lines(new, "Message:\n%s") : new[i].level = "info"
            /\ \A i \in Lines(new, "Error decoding message: %s") : new[i].level = "error"
            /\ \A i \in Lines(new, "Could not process message: %s") : new[i].level = "error"]_vars

C8_Witness ==
    /\ lastEvent = "message"
    /\ Len(FromLoop(log)) = 3
    /\ Last(log).kind = "Could not process message: %s"

\* C9: a value received from the Errors channel adds exactly one entry to the
\* log, the error line at error level with the error's text; the loop keeps
\* running and Decode is not called.
C9_ErrorEvent ==
    [][ReceivesError =>
         /\ log' = Append(log, [src |-> "loop", level |-> "error",
                                kind |-> "Error: %s", text |-> <<Head(errs)>>])
         /\ pc' = "running"
         /\ decodeCalls' = decodeCalls]_vars

C9_Witness ==
    /\ lastEvent = "error"
    /\ pc = "running"
    /\ Last(log).kind = "Error: %s"

\* C10: a value received from the Notifications channel adds exactly one
\* entry to the log, the rebalance line at warning level; the loop keeps
\* running and Decode is not called.
C10_NotificationEvent ==
    [][ReceivesNotification =>
         /\ log' = Append(log, [src |-> "loop", level |-> "warning",
                                kind |-> "Rebalanced: %+v", text |-> <<Head(notifs)>>])
         /\ pc' = "running"
         /\ decodeCalls' = decodeCalls]_vars

C10_Witness ==
    /\ lastEvent = "notification"
    /\ pc = "running"
    /\ Last(log).kind = "Rebalanced: %+v"


(***************************************************************************)
(* Properties of parser.New and of main                                    *)
(***************************************************************************)

\* C11: New calls ValidateSchemas exactly once, with the schemas string it
\* was given; when validation fails New returns a nil Parser and that error
\* and no Serve loop is ever started; when it succeeds New returns a Parser
\* and a nil error.
C11_NewValidatesOnce ==
    /\ mainPc = "new" => validateCalls = <<>> /\ pc = "idle"
    /\ mainPc # "new" =>
          /\ validateCalls = <<newResult.schemas>>
          /\ LET err == ValidateSchemas(decoder, newResult.schemas)
             IN /\ newResult.err = err
                /\ (err # NilError) => (newResult.parser = "nil" /\ pc = "idle")
                /\ (err = NilError) => newResult.parser = "parser"

C11_Witness ==
    /\ mainPc = "exited"
    /\ newResult.parser = "nil"
    /\ newResult.err = "validate schemas test error"
    /\ Len(validateCalls) = 1


(***************************************************************************)
(* Further properties of the dispatch loop                                 *)
(***************************************************************************)

\* C12: once the loop has found a source channel closed it does not select
\* that channel again: the closed case is no longer among the cases the
\* running loop can take.
C12_ClosedChannelNotSelectedAgain ==
    pc = "running" =>
      /\ lastEvent = "messages_closed" => ~ENABLED RecvMessageClosed
      /\ lastEvent = "errors_closed" => ~ENABLED RecvErrorClosed
      /\ lastEvent = "notifications_closed" => ~ENABLED RecvNotificationClosed

\* sarama-cluster's Close closes the Messages, Errors and Notifications
\* channels of the consumer
ConsumerReleased == msgsClosed /\ errsClosed /\ notifsClosed

\* C13: when the loop has stopped on the shutdown signal, the consumer it
\* owns has been closed.
C13_StoppedReleasesConsumer == pc = "stopped" => ConsumerReleased


\* C14: no value arriving on a source channel makes a handler panic: the
\* goroutine of the loop is never in the panicked state.
C14_NoHandlerPanics == pc # "panicked"


\* C15: when the decoded value cannot be serialized, printJSON writes exactly
\* one entry, the could-not-process line at error level with the error's
\* text, and no message line; the loop keeps running.
C15_SerializationFailure ==
    [][(/\ ReceivesMessage
        /\ Decode(decoder, Head(msgs).Value).err = NilError
        /\ MarshalIndent(Decode(decoder, Head(msgs).Value).data).err # NilError) =>
         LET new == FromLoop(NewEntries)
             failed == Lines(new, "Could not process message: %s")
         IN /\ Cardinality(failed) = 1
            /\ \A i \in failed :
                  /\ i = Len(new)
                  /\ new[i].level = "error"
                  /\ new[i].text =
                        <<MarshalIndent(Decode(decoder, Head(msgs).Value).data).err>>
            /\ Lines(new, "Message:\n%s") = {}
            /\ Lines(new, "Error decoding message: %s") = {}
            /\ pc' = "running"]_vars

C15_Witness ==
    \E i \in DOMAIN log :
       /\ i < Len(log)
       /\ log[i].kind = "Could not process message: %s"
       /\ log[i + 1].kind = "Error: %s"


\* a case of the select can be taken
SelectEnabled ==
    \/ ENABLED BeginMessage \/ ENABLED RecvMessageClosed
    \/ ENABLED RecvError \/ ENABLED RecvErrorClosed
    \/ ENABLED RecvNotification \/ ENABLED RecvNotificationClosed
    \/ ENABLED RecvDone

\* C16: at most one case body is running at any time, so at most one Decode
\* call is in progress, and while a case body runs the loop takes no case of
\* the select.
C16_OneHandlerAtATime ==
    /\ Len(inflight) <= 1
    /\ inflight # <<>> => (pc = "decoding" /\ ~SelectEnabled)

C16_Witness ==
    /\ Len(inflight) = 1
    /\ msgs # <<>> /\ errs # <<>> /\ done > 0

\* C17: the entries of different events are not interleaved: while the
\* handling of a message is under way nothing else is received, and the only
\* entries added to the log are the rest of that message's entries, at the
\* step that ends its handling; with no handling under way a step adds the
\* entries of one event only.
C17_EntriesInArrivalOrder ==
    [][/\ inflight # <<>> =>
            /\ ~ReceivesMessage /\ ~ReceivesError /\ ~ReceivesNotification
            /\ ~ReceivesDone
            /\ log' # log =>
                  /\ inflight' = Tail(inflight)
                  /\ Last(NewEntries).kind \in OutcomeKinds
                  /\ \A i \in DOMAIN NewEntries :
                        NewEntries[i].kind \in OutcomeKinds \/ NewEntries[i].src = "decoder"
       /\ (inflight = <<>> /\ log' # log) =>
            \/ /\ ReceivesMessage
               /\ NewEntries[1].kind = "Offset: %d"
               /\ \A i \in 2..Len(NewEntries) :
                     NewEntries[i].kind \in {"Headers:", "\t%s: %s"}
            \/ /\ ReceivesError
               /\ Len(NewEntries) = 1 /\ NewEntries[1].kind = "Error: %s"
            \/ /\ ReceivesNotification
               /\ Len(NewEntries) = 1 /\ NewEntries[1].kind = "Rebalanced: %+v"]_vars

C17_Witness ==
    /\ inflight = <<>>
    /\ \E i \in DOMAIN log :
          /\ i < Len(log)
          /\ log[i].kind \in OutcomeKinds
          /\ log[i + 1].kind = "Rebalanced: %+v"


\* C18: a message is consumed exactly once and never altered: the step that
\* takes it from the Messages channel makes exactly one Decode call, with the
\* message's value; no other step calls Decode; and the messages still on the
\* channel stay as they were delivered.
C18_MessageConsumedOnce ==
    [][/\ ReceivesMessage =>
            /\ msgs' = Tail(msgs)
            /\ Len(decodeCalls') = Len(decodeCalls) + 1
            /\ SubSeq(decodeCalls', 1, Len(decodeCalls)) = decodeCalls
            /\ Last(decodeCalls').value = Head(msgs).Value
       /\ ~ReceivesMessage =>
            /\ decodeCalls' = decodeCalls
            /\ SubSeq(msgs', 1, Len(msgs)) = msgs]_vars

C18_Witness ==
    /\ lastEvent = "message"
    /\ Len(decodeCalls) = 3
    /\ decodeCalls[1].value = EmptyBytes
    /\ decodeCalls[2].value = NilBytes
    /\ decodeCalls[3].value = ValidDoc


\* a step in which the loop completes a round of its select
SelectRound ==
    \/ ReceivesMessage \/ ReceivesError \/ ReceivesNotification \/ ReceivesDone
    \/ lastEvent' # lastEvent

\* no case other than shutdown is ready: nothing is pending on the source
\* channels and none of them is closed
OnlyShutdownReady ==
    /\ msgs = <<>> /\ errs = <<>> /\ notifs = <<>>
    /\ ~msgsClosed /\ ~errsClosed /\ ~notifsClosed

\* C19 as stated: once the signal is in the handle, the next round of the
\* select takes the shutdown case, whatever else is ready.
C19_NextSelectIsShutdown ==
    [][(done > 0 /\ pc = "running" /\ SelectRound) => ReceivesDone]_vars

\* C19 as amended: once the signal is in the handle, the next round of the
\* select takes the shutdown case when no other case is ready, and the round
\* that takes the shutdown case stops the loop.
C19_ShutdownWhenOnlyReady ==
    [][/\ (done > 0 /\ pc = "running" /\ SelectRound /\ OnlyShutdownReady) =>
            (ReceivesDone /\ pc' = "stopped")
       /\ (pc = "running" /\ ReceivesDone) => pc' = "stopped"]_vars

C19_Witness ==
    /\ pc = "stopped" /\ lastEvent = "shutdown"
    /\ OnlyShutdownReady
    /\ Len(decodeCalls) >= 1

\* C20: main sends at most one shutdown signal, and only after an OS signal;
\* when the process has exited after sending it, the loop had stopped.
C20_GracefulShutdown ==
    /\ sent <= 1
    /\ sent = 1 => mainPc \in {"return", "exited"}
    /\ (mainPc = "exited" /\ sent = 1) => pc = "stopped"


(***************************************************************************)
(* Properties of the decoders                                              *)
(***************************************************************************)
\* the Decode calls made so far on an AvroDecoder
AvroCalls == { i \in DOMAIN decoded : decoded[i].decoder.kind = "avro" }

\* no ValidateSchemas call among the first n returned nil
NeverValidated(n) == \A k \in 1..n : ioTrace[k].err # NilError

\* C21: Decode on an AvroDecoder on which no ValidateSchemas call has
\* succeeded returns a nil value and ErrNoCodec, whatever the payload.
C21_DecodeWithoutCodec ==
    \A i \in AvroCalls :
        NeverValidated(decoded[i].validates)
            => /\ decoded[i].data.type = "nil"
               /\ decoded[i].err = ErrNoCodec

\* a Decode of a non-empty payload after a ValidateSchemas call that failed
C21_Witness ==
    \E i \in AvroCalls :
        /\ decoded[i].validates >= 1
        /\ NeverValidated(decoded[i].validates)
        /\ decoded[i].payload # <<>>
        /\ decoded[i].err = ErrNoCodec

\* the ValidateSchemas calls made so far on an AvroDecoder
AvroValidations == { k \in DOMAIN ioTrace : decoder.kind = "avro" }

\* C22: AvroDecoder.ValidateSchemas with a path that does not end in .avsc
\* returns ErrInvalidSchema without reading a file or building a codec; the
\* steps are taken in the order extension, file read, codec compile, and nil
\* is returned only when all three pass.
C22_ValidateSchemasOrder ==
    \A k \in AvroValidations :
        LET call == ioTrace[k]
        IN /\ ~HasSuffix(call.schemas, ".avsc")
                 => call.err = ErrInvalidSchema /\ call.steps = <<>>
           /\ call.steps \in { <<>>,
                               << IOReadFile(call.schemas) >>,
                               << IOReadFile(call.schemas), IONewCodec(call.schemas) >> }
           /\ Len(call.steps) >= 1 => HasSuffix(call.schemas, ".avsc")
           /\ Len(call.steps) = 2 => ReadFile(call.schemas).err = NilError
           /\ call.err = NilError
                 => /\ HasSuffix(call.schemas, ".avsc")
                    /\ ReadFile(call.schemas).err = NilError
                    /\ NewCodec(ReadFile(call.schemas).bytes).err = NilError
                    /\ Len(call.steps) = 2

\* a schema file that exists under a wrong extension was refused, and a
\* schema was accepted
C22_Witness ==
    /\ \E k \in AvroValidations :
          /\ ioTrace[k].schemas = <<"test_schema", ".json">>
          /\ ioTrace[k].err = ErrInvalidSchema
    /\ \E k \in AvroValidations : ioTrace[k].err = NilError

\* the records encodable under a schema that the payloads are made from
RecordsOf(schema) ==
    IF schema = TestSchema THEN TestRecords
    ELSE IF schema = NestedSchema THEN NestedRecords
    ELSE {}

\* C23: on a validated AvroDecoder without a Converter, Decode of the
\* encoding of a record returns a nil error and a non-nil mapping equal to
\* the record.
C23_RoundTrip ==
    \A i \in AvroCalls :
        LET call == decoded[i]
        IN (call.decoder.codec # NilCodec /\ call.decoder.Converter = NilConverter)
              => \A R \in RecordsOf(call.decoder.codec) :
                    call.payload = BinaryFromNative(call.decoder.codec, R)
                       => /\ call.err = NilError
                          /\ call.data.type = "map[string]interface{}"
                          /\ call.data = R

\* the encoding of a nested record with arrays in it was decoded
C23_Witness ==
    \E i \in AvroCalls :
        /\ decoded[i].decoder.codec = NestedSchema
        /\ decoded[i].decoder.Converter = NilConverter
        /\ \E R \in NestedRecords :
              /\ R.v.grid.v # <<>>
              /\ decoded[i].payload = BinaryFromNative(NestedSchema, R)
              /\ decoded[i].data = R

\* the payload of the Decode call a step makes decodes to a mapping and the
\* Converter of the decoder fails on it
ConverterFails ==
    /\ Len(decoded') = Len(decoded) + 1
    /\ decoder.kind = "avro"
    /\ decoder.codec # NilCodec
    /\ decoder.Converter # NilConverter
    /\ LET r == NativeFromBinary(decoder.codec, Last(decoded').payload)
       IN /\ r.err = NilError
          /\ r.native.type = "map[string]interface{}"
          /\ ConvertFields(decoder.Converter, r.native).err # NilError

\* C24: when the Converter fails, Decode returns a nil value and the
\* Converter's own error; the decoder (its codec included) is as before and
\* so is what it returns for every payload.
C24_ConverterFailure ==
    [][ConverterFails
          => /\ Last(decoded').data.type = "nil"
             /\ Last(decoded').err =
                   ConvertFields(decoder.Converter,
                                 NativeFromBinary(decoder.codec,
                                                  Last(decoded').payload).native).err
             /\ decoder' = decoder
             /\ \A msg \in AvroPayloads :
                   Decode(decoder', msg) = Decode(decoder, msg)]_vars

\* the Converter failed on one payload and another payload was decoded later
C24_Witness ==
    \E i, j \in AvroCalls :
        /\ i < j
        /\ decoded[i].err = "test error"
        /\ decoded[j].payload # decoded[i].payload
        /\ decoded[j].decoder.codec = decoded[i].decoder.codec

RECURSIVE AllValues(_)
\* every value nested in a native value, at any depth
AllValues(native) ==
    CASE native.type = "map[string]interface{}" ->
            UNION { {native.v[k]} \cup AllValues(native.v[k]) : k \in DOMAIN native.v }
      [] native.type = "[]interface{}" ->
            UNION { {native.v[i]} \cup AllValues(native.v[i]) : i \in DOMAIN native.v }
      [] OTHER -> {}

\* C25: the normalization pass looks at every value nested in the decoded
\* mapping, at any depth, and no decoded record makes it fail.
C25_NormalizationVisitsAll ==
    \A i \in AvroCalls :
        LET call == decoded[i]
            r == NativeFromBinary(call.decoder.codec, call.payload)
        IN (/\ call.decoder.codec # NilCodec
            /\ r.err = NilError
            /\ r.native.type = "map[string]interface{}")
              => /\ castFields(r.native) = AllValues(r.native)
                 /\ call.decoder.Converter = NilConverter => call.err = NilError

\* the Decode calls made so far on a JSONDecoder
JSONCalls == { i \in DOMAIN decoded : decoded[i].decoder.kind = "json" }

\* C26: JSONDecoder.Decode of a payload of length zero returns a nil value
\* and the error "Invalid JSON, length < 1", whether or not ValidateSchemas
\* was called before.
C26_EmptyPayload ==
    \A i \in JSONCalls :
        ByteLen(decoded[i].payload) = 0
            => /\ decoded[i].data.type = "nil"
               /\ decoded[i].err = "Invalid JSON, length < 1"

\* an empty payload was decoded before any ValidateSchemas call and another
\* one after a ValidateSchemas call
C26_Witness ==
    \E i, j \in JSONCalls :
        /\ decoded[i].payload = EmptyBytes /\ decoded[i].validates = 0
        /\ ByteLen(decoded[j].payload) = 0 /\ decoded[j].validates >= 1
        /\ decoded[j].err = "Invalid JSON, length < 1"

\* C27: JSONDecoder.Decode of a non-empty payload returns a nil error and
\* the bytes of the payload as they are, valid JSON or not; and
\* JSONDecoder.ValidateSchemas returns nil for every argument.
C27_PassThrough ==
    /\ \A i \in JSONCalls :
          ByteLen(decoded[i].payload) >= 1
              => /\ decoded[i].err = NilError
                 /\ decoded[i].data.type = "RawMessage"
                 /\ decoded[i].data.bytes = decoded[i].payload
    /\ decoder.kind = "json" => \A k \in DOMAIN ioTrace : ioTrace[k].err = NilError

\* a payload that is not a JSON document was passed through, and
\* ValidateSchemas was called with a path that names no file
C27_Witness ==
    /\ \E i \in JSONCalls :
          /\ decoded[i].payload = InvalidDoc
          /\ decoded[i].err = NilError
          /\ decoded[i].data.bytes = InvalidDoc
    /\ \E k \in DOMAIN ioTrace : ioTrace[k].schemas = <<"fake_path", ".avsc">>

GetDecoderRan == consumerConn = "connected" /\ mainPc # "get_decoder"

\* the loadPlugin calls made for the decoder
DecoderLoads == SelectSeq(pluginCalls, LAMBDA c : c.symbol = "Decoder")

\* C29: getDecoder resolves "json", "msgpack" and "avro" to the built-in
\* decoders without a loadPlugin call for the decoder; every other type is
\* resolved by one call loadPlugin(type, "Decoder").
C29_BuiltinOrPlugin ==
    GetDecoderRan =>
        /\ args.msgType \in {"json", "msgpack", "avro"} => DecoderLoads = <<>>
        /\ args.msgType = "json" => decoder = JSONDecoder
        /\ args.msgType = "msgpack" => decoder = MsgPackDecoder
        /\ (args.msgType = "avro" /\ decoder # NoDecoder)
              => decoder.kind = "avro" /\ DOMAIN decoder = DOMAIN AvroDecoder(NilConverter)
        /\ args.msgType \notin {"json", "msgpack", "avro"}
              => /\ DecoderLoads = << PluginCall(args.msgType, "Decoder") >>
                 /\ decoder # NoDecoder
                       => decoder = PluginFiles[args.msgType].Decoder.value

\* the type AVRO, which checkArgs takes for the Avro type, went to loadPlugin
C29_Witness ==
    /\ args.msgType = "AVRO"
    /\ pluginCalls = << PluginCall("AVRO", "Decoder") >>
    /\ mainPc = "exited"

\* getDecoder ended the process: a decoder or converter plugin could not be
\* opened, did not export the symbol, or exported a value of the wrong type
ResolutionFailed ==
    /\ mainPc \in {"exited", "panicked"}
    /\ decoder = NoDecoder
    /\ \E i \in DOMAIN pluginCalls : pluginCalls[i].symbol \in {"Decoder", "Converter"}

\* C30: when the resolution of the decoder or the converter fails the
\* process ends before Serve is called and nothing of the startup is left:
\* no Parser, no loop and no connected consumer.
C30_ResolutionFailureLeavesNothing ==
    ResolutionFailed
        => /\ pc = "idle"
           /\ newResult = NoResult
           /\ consumerConn = "none"

\* main has been through checkArgs
CheckArgsRan == args.parsed /\ mainPc # "check_args"

\* the line log.Fatalf writes when checkArgs returns the given error
ArgsFatal(err) == Entry("main", "fatal", "Could not validate args: %s", <<err>>)

\* the type names the Avro type in any letter case
IsAvroType(t) == t \in {"avro", "Avro", "AVRO"}

\* the first requirement of the command line that is not met, in the order
\* brokers, topic, type, schemas
FirstMissing(a) ==
    CASE a.brokers = "" -> errNoBrokers
      [] a.brokers # "" /\ a.topic = "" -> errNoTopic
      [] a.brokers # "" /\ a.topic # "" /\ a.msgType = "" -> errNoType
      [] a.brokers # "" /\ a.topic # "" /\ a.msgType # ""
            /\ IsAvroType(a.msgType) /\ a.schemas = <<>> -> errNoSchemas
      [] OTHER -> NilError

\* C31: checkArgs returns nil exactly when bootstrap-server, topic and type
\* are non-empty and, for the Avro type, schemas is non-empty; otherwise it
\* returns the error of the first failing check in the order brokers, topic,
\* type, schemas, and main exits with no consumer created and no loop
\* started.
C31_CheckArgs ==
    CheckArgsRan =>
        IF FirstMissing(args) = NilError
        THEN \A i \in DOMAIN log : log[i].kind # "Could not validate args: %s"
        ELSE /\ log = << ArgsFatal(FirstMissing(args)) >>
             /\ mainPc = "exited"
             /\ consumerConn = "none"
             /\ pluginCalls = <<>>
             /\ decoder = NoDecoder
             /\ newResult = NoResult
             /\ pc = "idle"

\* brokers and topic are both missing and main has exited on the brokers
C31_Witness ==
    /\ CheckArgsRan
    /\ args.brokers = "" /\ args.topic = ""
    /\ log = << ArgsFatal(errNoBrokers) >>
    /\ mainPc = "exited"

\* the steps of main in the order of its source, and where each can lead
MainOrder ==
    { <<"check_args", "tls">>, <<"check_args", "exited">>,
      <<"tls", "consumer">>, <<"tls", "exited">>, <<"tls", "panicked">>,
      <<"consumer", "get_decoder">>,
      <<"get_decoder", "new">>, <<"get_decoder", "exited">>,
      <<"get_decoder", "panicked">>,
      <<"new", "serve">>, <<"new", "fatal">>, <<"fatal", "exited">>,
      <<"serve", "wait_signal">>, <<"wait_signal", "send_done">>,
      <<"send_done", "return">>, <<"return", "exited">> }

\* every step of main before Serve has succeeded on this command line
StartupSucceeded ==
    /\ checkArgs(args) = NilError
    /\ getTLSConfig(args).exit = "ok"
    /\ consumerConn = "connected"
    /\ getDecoder(args.msgType, args.converterPath).exit = "ok"
    /\ validateCalls = << args.schemas >>
    /\ newResult.err = NilError /\ newResult.parser = "parser"

\* what has happened by the time each later step has run
StartupGated ==
    /\ consumerConn = "connected"
          => /\ checkArgs(args) = NilError
             /\ getTLSConfig(args).exit = "ok"
             /\ args.tlsConfigPath # ""
                   => pluginCalls # <<>> /\ pluginCalls[1].symbol = "TLS"
    /\ decoder # NoDecoder => consumerConn = "connected"
    /\ validateCalls # <<>> => decoder # NoDecoder
    /\ pc # "idle" => StartupSucceeded
    /\ sent > 0 => pc # "idle"

\* each effect of the startup happens in its own step of main
StartupStep ==
    /\ mainPc' # mainPc => <<mainPc, mainPc'>> \in MainOrder
    /\ consumerConn' # consumerConn => mainPc = "consumer"
    /\ validateCalls' # validateCalls => mainPc = "new"
    /\ (pc = "idle" /\ pc' # "idle") => mainPc = "serve"
    /\ sent' # sent => mainPc = "send_done"

\* C32: the steps of main happen in the order argument validation, TLS
\* configuration, consumer construction, decoder resolution, parser.New,
\* Serve, wait for a signal, send on done; the TLS configuration is obtained
\* before the consumer is constructed and Serve is not started when an
\* earlier step failed.
C32_StartupOrder == []StartupGated /\ [][StartupStep]_vars

\* main went through every step with a TLS plugin and has sent on done
C32_Witness ==
    /\ args.parsed /\ args.tlsConfigPath = "tls_so"
    /\ pluginCalls = << PluginCall("tls_so", "TLS") >>
    /\ StartupSucceeded
    /\ sent = 1
    /\ mainPc = "exited"

\* main is past newConsumer
ConsumerReturned ==
    mainPc \in {"get_decoder", "new", "fatal", "serve", "wait_signal",
                "send_done", "return"}

\* an int64 above zero
IsPositive(d) == ~IsNegative(d) /\ d # Int64(0)

RECURSIVE DoubleBytes(_, _, _)
DoubleBytes(d, i, carry) ==
    IF i > Len(d) THEN <<>>
    ELSE LET s == 2 * d[i] + carry
         IN << s % 256 >> \o DoubleBytes(d, i + 1, s \div 256)

\* cur is two times prev as integers: the doubling is done on nine bytes,
\* where no positive int64 overflows
IsTwice(cur, prev) ==
    /\ IsPositive(prev) /\ IsPositive(cur)
    /\ cur \o <<0>> = DoubleBytes(prev \o <<0>>, 1, 0)

\* C33: newConsumer returns only a consumer that was created; the sleep
\* before the k-th retry is 100ms * 2^k: the first is 200ms, every one is
\* positive and is exactly twice the one before, however many attempts
\* failed in a row.
C33_Backoff ==
    /\ ConsumerReturned => consumerConn = "connected"
    /\ \A k \in DOMAIN backoffs :
          /\ IsPositive(backoffs[k])
          /\ k = 1 => backoffs[k] = Int64(200 * Millisecond)
          /\ k > 1 => IsTwice(backoffs[k], backoffs[k - 1])

\* the loop is in the middle of handling a message: Decode has been called
\* and the entries of the message are not written yet
MidEvent == inflight # <<>>

\* C34: the handle returned by Serve has one slot: the first send on it can
\* complete at once whatever the loop is doing, in its select or in the
\* middle of an event, and the handle never holds more than one signal.
C34_SingleSlotHandle ==
    /\ done <= 1
    /\ sent = 0 => ENABLED SendDone

\* the send completed while the loop was in the middle of a message
C34_Witness ==
    /\ MidEvent
    /\ sent = 1 /\ done = 1

\* the key and value of the headers of a message that are not nil, in order
NonNilHeaders(headers) ==
    LET kept == SelectSeq(headers, LAMBDA h : ~h.nil)
    IN [i \in DOMAIN kept |-> <<kept[i].Key, kept[i].Value>>]

\* what the header lines among the given entries show, in order
HeaderLineTexts(entries) ==
    LET lines == SelectSeq(entries, LAMBDA e : e.kind = "\t%s: %s")
    IN [i \in DOMAIN lines |-> lines[i].text]

\* the entries a step added to the log
Added == SubSeq(log', Len(log) + 1, Len(log'))

\* C35: a nil entry in the headers of a message is skipped without error:
\* the header lines logged for the message are those of its non-nil headers,
\* as many and in the same order, none of the entries is an error, and the
\* value of the message is passed to Decode.
C35_NilHeadersSkipped ==
    [][(msgs # <<>> /\ msgs' = Tail(msgs))
          => /\ HeaderLineTexts(Added) = NonNilHeaders(Head(msgs).Headers)
             /\ \A i \in DOMAIN Added : Added[i].level = "info"
             /\ Len(decodeCalls') = Len(decodeCalls) + 1
             /\ decodeCalls'[Len(decodeCalls')].value = Head(msgs).Value
             /\ pc' = "decoding"]_vars

\* the message with a nil header between two others is being decoded and
\* two header lines were logged for it
C35_Witness ==
    /\ inflight # <<>>
    /\ inflight[1].Headers = <<Header2, NilHeader, Header1>>
    /\ Len(log) >= 4
    /\ HeaderLineTexts(log) = << <<"k2", "v2">>, <<"k1", "v1">> >>
    /\ Len(decodeCalls) = 1

\* the step is a ValidateSchemas call on the AvroDecoder that returned an
\* error
AvroValidationFailed ==
    /\ decoder.kind = "avro"
    /\ Len(ioTrace') = Len(ioTrace) + 1
    /\ ioTrace'[Len(ioTrace')].err # NilError

\* C36: a ValidateSchemas call of the AvroDecoder that fails, at the
\* extension check, the file read or the codec compilation, leaves the codec
\* of the decoder as it was before the call, so that a decoder validated
\* earlier decodes with its earlier codec and one never validated still
\* reports ErrNoCodec.
C36_FailedValidationKeepsCodec ==
    [][AvroValidationFailed
          => /\ decoder'.codec = decoder.codec
             /\ \A msg \in AvroPayloads :
                   AvroDecode(decoder', msg) = AvroDecode(decoder, msg)]_vars

\* checkArgs asks for schemas when the type is the one of this command line
SchemasEnforced ==
    checkArgs([args EXCEPT !.schemas = <<>>]) = errNoSchemas

\* getDecoder took the branch of the built-in AvroDecoder: no plugin was
\* loaded for the decoder, and the decoder is the AvroDecoder or, when the
\* converter could not be loaded, none
ResolvedToAvro ==
    /\ DecoderLoads = <<>>
    /\ decoder.kind = "avro" \/ decoder = NoDecoder

\* C37: checkArgs and getDecoder agree on the types that mean Avro: a type
\* for which checkArgs enforces schemas is resolved to the built-in
\* AvroDecoder, and a type resolved to the built-in AvroDecoder had schemas
\* enforced.
C37_AvroTypesAgree ==
    GetDecoderRan => (SchemasEnforced <=> ResolvedToAvro)

\* the Decode calls made on the MsgPackDecoder
MsgPackCalls == { i \in DOMAIN decoded : decoded[i].decoder.kind = "msgpack" }

\* the errors of the MessagePack parser
ParserErrors == { ErrEOF, ErrInvalidCode, ErrInvalidString }

\* C38: MsgPackDecoder.Decode returns a string-keyed mapping with a nil
\* error or a nil value with the error of the parser, never a value and an
\* error; MsgPackDecoder.ValidateSchemas returns nil for every argument and
\* does not change what later Decode calls return.
C38_MsgPackDecode ==
    /\ \A i \in MsgPackCalls :
          \/ /\ decoded[i].err = NilError
             /\ decoded[i].data.type = "map[string]interface{}"
          \/ /\ decoded[i].err \in ParserErrors
             /\ decoded[i].data = NilData
    /\ decoder.kind = "msgpack"
          => /\ decoder = MsgPackDecoder
             /\ \A k \in DOMAIN ioTrace : ioTrace[k].err = NilError
    /\ \A i, j \in MsgPackCalls :
          decoded[i].payload = decoded[j].payload
              => /\ decoded[i].data = decoded[j].data
                 /\ decoded[i].err = decoded[j].err

\* the same payload was decoded before and after a ValidateSchemas call for
\* a path that names no file, to the same one-pair mapping
C38_Witness ==
    /\ ioTrace # <<>> /\ ioTrace[1].schemas = <<"fake_path", ".avsc">>
    /\ \E i, j \in MsgPackCalls :
          /\ decoded[i].validates = 0 /\ decoded[j].validates = 1
          /\ decoded[i].payload = <<129, 161, 97, 161, 98>>
          /\ decoded[j].payload = decoded[i].payload
          /\ decoded[j].err = NilError
          /\ DOMAIN decoded[j].data.v = {<<97>>}

====
